---- MODULE Spec2Model ----
(***************************************************************************)
(* Upload intake and storage placement of MikaniroBytes                    *)
(* (backend/app/routers/files, backend/app/routers/admin).                 *)
(*                                                                         *)
(* Strings are sequences of one-character strings, so that the path and    *)
(* extension functions are computed character by character as the Python   *)
(* code computes them.  A file's bytes are a sequence of small integers.   *)
(* The 16 hex digits that store_new_file derives from secrets.token_hex    *)
(* are one symbol "h<n>", a fresh nonce for every upload.                  *)
(***************************************************************************)
EXTENDS Integers, Sequences, FiniteSets, TLC

(***************************************************************************)
(* String helpers (Python str methods and posixpath functions)             *)
(***************************************************************************)
RECURSIVE LStrip(_, _)
LStrip(s, cs) ==
    IF s # <<>> /\ Head(s) \in cs THEN LStrip(Tail(s), cs) ELSE s

RECURSIVE RStrip(_, _)
RStrip(s, cs) ==
    IF s # <<>> /\ s[Len(s)] \in cs THEN RStrip(SubSeq(s, 1, Len(s) - 1), cs) ELSE s

Strip(s, cs) == RStrip(LStrip(s, cs), cs)

Whitespace == {" "}

ReplaceChar(s, c, d) == [i \in 1..Len(s) |-> IF s[i] = c THEN d ELSE s[i]]

StartsWith(s, t) == Len(s) >= Len(t) /\ SubSeq(s, 1, Len(t)) = t

EndsWith(s, t) == Len(s) >= Len(t) /\ SubSeq(s, Len(s) - Len(t) + 1, Len(s)) = t

Contains(s, t) == \E i \in 1..(Len(s) - Len(t) + 1) : SubSeq(s, i, i + Len(t) - 1) = t

RECURSIVE ReplaceSub(_, _, _)
ReplaceSub(s, tok, rep) ==
    IF s = <<>> THEN <<>>
    ELSE IF StartsWith(s, tok)
         THEN rep \o ReplaceSub(SubSeq(s, Len(tok) + 1, Len(s)), tok, rep)
         ELSE <<Head(s)>> \o ReplaceSub(Tail(s), tok, rep)

RECURSIVE SplitAcc(_, _, _, _)
SplitAcc(s, c, cur, acc) ==
    IF s = <<>> THEN Append(acc, cur)
    ELSE IF Head(s) = c
         THEN SplitAcc(Tail(s), c, <<>>, Append(acc, cur))
         ELSE SplitAcc(Tail(s), c, Append(cur, Head(s)), acc)

Split(s, c) == SplitAcc(s, c, <<>>, <<>>)

RECURSIVE Join(_, _)
Join(parts, c) ==
    IF parts = <<>> THEN <<>>
    ELSE IF Len(parts) = 1 THEN parts[1]
         ELSE parts[1] \o <<c>> \o Join(Tail(parts), c)

UpperLetters ==
    <<"A", "B", "C", "D", "E", "F", "G", "H", "I", "J", "K", "L", "M",
      "N", "O", "P", "Q", "R", "S", "T", "U", "V", "W", "X", "Y", "Z">>

LowerLetters ==
    <<"a", "b", "c", "d", "e", "f", "g", "h", "i", "j", "k", "l", "m",
      "n", "o", "p", "q", "r", "s", "t", "u", "v", "w", "x", "y", "z">>

LowerOf ==
    [c \in {UpperLetters[k] : k \in 1..Len(UpperLetters)} |->
        LowerLetters[CHOOSE k \in 1..Len(UpperLetters) : UpperLetters[k] = c]]

LowerChar(c) == IF c \in DOMAIN LowerOf THEN LowerOf[c] ELSE c

Lower(s) == [i \in 1..Len(s) |-> LowerChar(s[i])]

(* index of the last occurrence of c in s, 0 when there is none *)
RECURSIVE LastIndex(_, _)
LastIndex(s, c) ==
    IF s = <<>> THEN 0
    ELSE IF s[Len(s)] = c THEN Len(s)
         ELSE LastIndex(SubSeq(s, 1, Len(s) - 1), c)

(* s.rsplit(c, 1)[-1] *)
RSplitLast(s, c) ==
    LET parts == Split(s, c) IN parts[Len(parts)]

(* posixpath.basename / dirname / splitext *)
Basename(p) == SubSeq(p, LastIndex(p, "/") + 1, Len(p))

Dirname(p) ==
    LET head == SubSeq(p, 1, LastIndex(p, "/"))
    IN  IF head # <<>> /\ \E i \in 1..Len(head) : head[i] # "/"
        THEN RStrip(head, {"/"})
        ELSE head

AllDots(s) == \A i \in 1..Len(s) : s[i] = "."

SplitextExt(p) ==
    LET name == Basename(p)
        dot  == LastIndex(name, ".")
    IN  IF dot = 0 \/ AllDots(SubSeq(name, 1, dot)) THEN <<>>
        ELSE SubSeq(name, dot, Len(name))

(***************************************************************************)
(* helpers.py: pure functions                                              *)
(***************************************************************************)
DigitChars == <<"0", "1", "2", "3", "4", "5", "6", "7", "8", "9">>

(* zero-padded decimal rendering of n in at least w digits (strftime)      *)
RECURSIVE ZeroPad(_, _)
ZeroPad(n, w) ==
    IF n < 10 /\ w <= 1 THEN <<DigitChars[n + 1]>>
    ELSE Append(ZeroPad(n \div 10, w - 1), DigitChars[(n % 10) + 1])

(* now.strftime("%Y"), which CPython hands to the C library: glibc writes a
   year below 1000 without leading zeros, other libraries write four
   digits; now.pads says which library the build runs on, and is read only
   for such a year *)
strftime_Y(now) ==
    IF now.Y < 1000 /\ ~now.pads THEN ZeroPad(now.Y, 1) ELSE ZeroPad(now.Y, 4)

(* render_path_template without the final strip("/\\") *)
render_path_template_NoStrip(template, now) ==
    LET r1 == ReplaceSub(template, <<"{", "Y", "}">>, strftime_Y(now))
        r2 == ReplaceSub(r1, <<"{", "m", "}">>, ZeroPad(now.m, 2))
        r3 == ReplaceSub(r2, <<"{", "d", "}">>, ZeroPad(now.d, 2))
        r4 == ReplaceSub(r3, <<"{", "H", "}">>, ZeroPad(now.H, 2))
        r5 == ReplaceSub(r4, <<"{", "M", "}">>, ZeroPad(now.M, 2))
    IN  ReplaceSub(r5, <<"{", "S", "}">>, ZeroPad(now.S, 2))

(* render_path_template: the chain of str.replace calls, then strip("/\\") *)
render_path_template(template, now) ==
    LET r1 == ReplaceSub(template, <<"{", "Y", "}">>, strftime_Y(now))
        r2 == ReplaceSub(r1, <<"{", "m", "}">>, ZeroPad(now.m, 2))
        r3 == ReplaceSub(r2, <<"{", "d", "}">>, ZeroPad(now.d, 2))
        r4 == ReplaceSub(r3, <<"{", "H", "}">>, ZeroPad(now.H, 2))
        r5 == ReplaceSub(r4, <<"{", "M", "}">>, ZeroPad(now.M, 2))
        r6 == ReplaceSub(r5, <<"{", "S", "}">>, ZeroPad(now.S, 2))
    IN  Strip(r6, {"/", "\\"})

(* the backslashes are left as they are *)
_sanitize_archive_path_KeepBackslash(path_in_archive) ==
    LET p     == LStrip(path_in_archive, {"/", "\\"})
        keep(seg) == seg \notin {<<".">>, <<".", ".">>, <<>>}
    IN  Join(SelectSeq(Split(p, "/"), keep), "/")

(* _sanitize_archive_path *)
_sanitize_archive_path(path_in_archive) ==
    LET p     == ReplaceChar(LStrip(path_in_archive, {"/", "\\"}), "\\", "/")
        keep(seg) == seg \notin {<<".">>, <<".", ".">>, <<>>}
    IN  Join(SelectSeq(Split(p, "/"), keep), "/")

(* validate_upload comparing the extension with the list as it is stored *)
validate_upload_CaseSensitive(file_data, filename, group_settings) ==
    IF ~group_settings.present THEN "ok"
    ELSE IF ~group_settings.size_null
            /\ Len(file_data) > group_settings.max_file_size
         THEN "ExceedsSizeLimitError"
         ELSE LET exts == IF group_settings.ext_null THEN <<>>
                          ELSE group_settings.allowed_extensions
                  ext  == IF Contains(filename, <<".">>)
                          THEN Lower(RSplitLast(filename, "."))
                          ELSE <<>>
              IN  IF exts # <<>> /\ ext \notin {exts[i] : i \in 1..Len(exts)}
                  THEN "ExtensionNotAllowedError"
                  ELSE "ok"

(* validate_upload: "ok", or the exception it raises.  group_settings is   *)
(* [present, size_null, max_file_size, ext_null, allowed_extensions]:      *)
(* present = FALSE is the missing settings object, size_null and ext_null  *)
(* are max_file_size = None and allowed_extensions = None.                 *)
validate_upload(file_data, filename, group_settings) ==
    IF ~group_settings.present THEN "ok"
    ELSE IF ~group_settings.size_null
            /\ Len(file_data) > group_settings.max_file_size
         THEN "ExceedsSizeLimitError"
         ELSE LET exts == IF group_settings.ext_null THEN <<>>
                          ELSE group_settings.allowed_extensions
                  ext  == IF Contains(filename, <<".">>)
                          THEN Lower(RSplitLast(filename, "."))
                          ELSE <<>>
                  allowed_lower == {Lower(exts[i]) : i \in 1..Len(exts)}
              IN  IF exts # <<>> /\ ext \notin allowed_lower
                  THEN "ExtensionNotAllowedError"
                  ELSE "ok"

ImageExtensions ==
    { <<"j", "p", "g">>, <<"j", "p", "e", "g">>, <<"p", "n", "g">>,
      <<"g", "i", "f">>, <<"b", "m", "p">>, <<"w", "e", "b", "p">> }

(* guess_file_type_by_extension *)
guess_file_type_by_extension(filename) ==
    IF Lower(RSplitLast(filename, ".")) \in ImageExtensions THEN "image" ELSE "base"

(* utils/preview.py PREVIEW_GENERATORS: the file types with a generator *)
PREVIEW_GENERATORS == {"image"}

(***************************************************************************)
(* The file system under UPLOAD_DIR.  A location is the sequence of the    *)
(* path's segments below the root; dirs is the set of directories (the     *)
(* root <<>> always exists), fdata maps each regular file to its bytes.    *)
(***************************************************************************)
RECURSIVE ResolveAcc(_, _)
ResolveAcc(segs, acc) ==
    IF segs = <<>> THEN acc
    ELSE IF Head(segs) \in {<<>>, <<".">>} THEN ResolveAcc(Tail(segs), acc)
    ELSE IF Head(segs) = <<".", ".">>
         THEN ResolveAcc(Tail(segs), IF acc = <<>> THEN <<>> ELSE SubSeq(acc, 1, Len(acc) - 1))
         ELSE ResolveAcc(Tail(segs), Append(acc, Head(segs)))

(* os.path.join(UPLOAD_DIR, rel) as a location *)
disk_path(rel) == ResolveAcc(Split(rel, "/"), <<>>)

(* TRUE when following rel from UPLOAD_DIR steps above it *)
RECURSIVE EscapesAcc(_, _)
EscapesAcc(segs, depth) ==
    IF segs = <<>> THEN FALSE
    ELSE IF Head(segs) \in {<<>>, <<".">>} THEN EscapesAcc(Tail(segs), depth)
    ELSE IF Head(segs) = <<".", ".">>
         THEN depth = 0 \/ EscapesAcc(Tail(segs), depth - 1)
         ELSE EscapesAcc(Tail(segs), depth + 1)

Escapes(rel) == StartsWith(rel, <<"/">>) \/ EscapesAcc(Split(rel, "/"), 0)

Prefixes(key) == {SubSeq(key, 1, i) : i \in 1..Len(key)}

ParentKey(key) == SubSeq(key, 1, Len(key) - 1)

IsDir(ds, key) == key = <<>> \/ key \in ds

IsFile(fd, key) == key \in DOMAIN fd

(* os.path.exists *)
PathExists(ds, fd, key) == IsDir(ds, key) \/ IsFile(fd, key)

(* os.makedirs(key, exist_ok=True) raises when a component is a regular file *)
MakedirsFails(fd, key) == \E k \in Prefixes(key) : IsFile(fd, k)

Makedirs(ds, key) == ds \cup Prefixes(key)

(* open(key, "wb") raises when the parent directory is missing or key is a directory *)
OpenFails(ds, key) == key = <<>> \/ ~IsDir(ds, ParentKey(key)) \/ key \in ds

WriteFile(fd, key, data) == (key :> data) @@ fd

RemoveFile(fd, key) == [k \in (DOMAIN fd) \ {key} |-> fd[k]]

(* os.listdir *)
Listdir(ds, fd, key) ==
    {k \in ds \cup DOMAIN fd : Len(k) = Len(key) + 1 /\ SubSeq(k, 1, Len(key)) = key}

(***************************************************************************)
(* Bounds                                                                  *)
(***************************************************************************)
MaxRequests == 2    \* requests of all kinds in one behaviour
MaxInFlight == 2    \* requests being handled at the same time
MaxUploads == 1     \* single-upload requests in one behaviour
MaxImports == 2     \* bulk-import requests in one behaviour
MaxDeletes == 1     \* batch-delete requests in one behaviour
MaxSettings == 1    \* system-settings updates in one behaviour
MaxFaults == 1      \* storage or database faults the environment injects

(***************************************************************************)
(* Identities and their group policies (utils/init_db.py creates the       *)
(* SUPER_ADMIN, GUEST and USERS groups; an administrator edits the limits: *)
(* sizes here are a few bytes instead of megabytes)                        *)
(***************************************************************************)
Anonymous == "anon"

GuestUser == "guest"

LoginUsers == {"admin", "alice", "bob"}

IsSuperAdmin(user) == user = "admin"

PNG == <<"p", "n", "g">>

GroupSettingsOf(user) ==
    CASE user = "admin" ->
           [present |-> TRUE, size_null |-> TRUE, max_file_size |-> 0,
            ext_null |-> FALSE, allowed_extensions |-> <<>>]
      [] user = "guest" ->
           [present |-> TRUE, size_null |-> FALSE, max_file_size |-> 2,
            ext_null |-> FALSE, allowed_extensions |-> << <<"j", "p", "g">>, PNG >>]
      [] user = "alice" ->
           [present |-> TRUE, size_null |-> FALSE, max_file_size |-> 2,
            ext_null |-> FALSE, allowed_extensions |-> << <<"P", "N", "G">> >>]
      [] OTHER ->
           [present |-> TRUE, size_null |-> FALSE, max_file_size |-> 3,
            ext_null |-> FALSE, allowed_extensions |-> <<>>]

(***************************************************************************)
(* Inputs of the requests                                                  *)
(***************************************************************************)
DefaultTemplate == <<"{", "Y", "}", "/", "{", "m", "}">>

Timestamps == {[Y |-> 2025, m |-> 4, d |-> 7, H |-> 3, M |-> 5, S |-> 9]}

A_PNG == <<"a", ".", "P", "N", "G">>

B_EXE == <<"b", ".", "e", "x", "e">>

(* the single uploads a client sends: caller, file name, bytes *)
UploadInputs ==
    { [user |-> "alice",   filename |-> A_PNG, contents |-> <<1>>],
      [user |-> "bob",     filename |-> B_EXE, contents |-> <<1, 2, 3>>],
      [user |-> "alice",   filename |-> A_PNG, contents |-> <<1, 2, 3>>],
      [user |-> "alice",   filename |-> B_EXE, contents |-> <<1>>],
      [user |-> "bob",     filename |-> B_EXE, contents |-> <<>>],
      [user |-> Anonymous, filename |-> A_PNG, contents |-> <<1>>],
      [user |-> "bob",     filename |-> A_PNG, contents |-> <<1, 2, 3>>],
      [user |-> Anonymous, filename |-> B_EXE, contents |-> <<1>>] }

(* the 16 hex digits of one upload's hashed name *)
HashSyms == <<"h1", "h2", "h3", "h4">>

(* the bulk imports a client sends: caller, archive (index in Archives) *)
ImportInputs ==
    { [user |-> "alice", arch |-> 1],
      [user |-> "alice", arch |-> 2], [user |-> "bob", arch |-> 2],
      [user |-> "bob", arch |-> 3], [user |-> "bob", arch |-> 4],
      [user |-> "alice", arch |-> 5], [user |-> "bob", arch |-> 6] }

ZIP == <<".", "z", "i", "p">>

TAR == <<".", "t", "a", "r">>

TARGZ == <<".", "t", "a", "r", ".", "g", "z">>

TGZ == <<".", "t", "g", "z">>

(* An archive: its file name, whether it has content, the index of the     *)
(* entry at which reading the container raises (0: never; a member of a    *)
(* zip with a bad checksum raises when it is read), its entries.           *)
Archives == <<
    [filename |-> <<"x", ".", "Z", "I", "P">>, empty |-> FALSE, failAt |-> 0,
     entries |-> <<
        [name |-> <<"d", "/", "a", ".", "p", "n", "g">>, kind |-> "file", data |-> <<1>>],
        [name |-> <<".", ".", "/", "d", "\\", "a", ".", "p", "n", "g">>, kind |-> "file", data |-> <<2>>],
        [name |-> <<"l", ".", "p", "n", "g">>, kind |-> "symlink", data |-> <<7>>] >>],
    [filename |-> <<"y">> \o TGZ, empty |-> FALSE, failAt |-> 0,
     entries |-> <<
        [name |-> <<"d">>, kind |-> "dir", data |-> <<>>],
        [name |-> <<"d", "/", "a", ".", "p", "n", "g">>, kind |-> "file", data |-> <<1, 2, 3>>],
        [name |-> <<".", ".">>, kind |-> "file", data |-> <<1>>],
        [name |-> <<"e", ".", "p", "n", "g">>, kind |-> "file", data |-> <<>>],
        [name |-> <<"l", ".", "p", "n", "g">>, kind |-> "symlink", data |-> <<>>],
        [name |-> <<"b", ".", "e", "x", "e">>, kind |-> "file", data |-> <<1>>],
        [name |-> <<"b", ".", "e", "x", "e", "/", "c">>, kind |-> "file", data |-> <<1>>] >>],
    [filename |-> <<"z">> \o ZIP, empty |-> FALSE, failAt |-> 2,
     entries |-> <<
        [name |-> <<"c", ".", "p", "n", "g">>, kind |-> "file", data |-> <<1>>],
        [name |-> <<"d", "/", "a", ".", "p", "n", "g">>, kind |-> "file", data |-> <<1>>] >>],
    [filename |-> <<"x", ".", "r", "a", "r">>, empty |-> FALSE, failAt |-> 0,
     entries |-> <<>>],
    [filename |-> <<"w">> \o TARGZ, empty |-> TRUE, failAt |-> 0,
     entries |-> <<>>],
    [filename |-> <<>>, empty |-> FALSE, failAt |-> 0,
     entries |-> <<>>]
  >>

ArchiveIds == 1..Len(Archives)

ImportSlots == 1..MaxImports

(* the batch deletes a client sends: caller, id list *)
DeleteInputs ==
    { [user |-> "alice", ids |-> {}],  [user |-> "alice", ids |-> {1, 2}],
      [user |-> "admin", ids |-> {1}] }

SettingsPayloads ==
    { [has_public |-> TRUE,  public |-> TRUE,  has_template |-> FALSE, template |-> <<>>],
      [has_public |-> FALSE, public |-> FALSE, has_template |-> TRUE,  template |-> <<" ", "/", "a">>],
      [has_public |-> FALSE, public |-> FALSE, has_template |-> TRUE,  template |-> <<"a", "/", ".", ".">>],
      [has_public |-> FALSE, public |-> FALSE, has_template |-> TRUE,  template |-> <<"\\", "a">>],
      [has_public |-> FALSE, public |-> FALSE, has_template |-> TRUE,  template |-> <<" ">>] }

SettingsCallers == {"admin", "alice"}

(***************************************************************************)
(* State                                                                   *)
(***************************************************************************)
VARIABLES
    settings,   \* the SystemSettings row
    dirs,       \* directories under UPLOAD_DIR
    fdata,      \* regular files under UPLOAD_DIR and their bytes
    recs,       \* the files table: id -> File row
    tasks,      \* file ids handed to BackgroundTasks.add_task
    up,         \* the single-upload request in progress
    imp,        \* the bulk-import requests, by connection
    loop,       \* the import whose body occupies the event loop, or 0
    del,        \* the batch-delete request in progress
    count,      \* how many requests and faults have occurred
    lastImp,    \* history: the import that ended last
    pure,       \* the call of a pure function under test, with its result
    previews,   \* the file_previews table: id -> FilePreview row
    pfiles,     \* the files under PREVIEW_DIR: name -> the File id it was rendered from
    gen,        \* the background tasks of each request, run one after another
    users       \* the users table: the usernames that exist

vars == <<settings, dirs, fdata, recs, tasks, up, imp, loop, del, count, lastImp, pure,
          previews, pfiles, gen, users>>

IdleUp ==
    [pc |-> "idle", user |-> "", owner |-> "", filename |-> <<>>, contents |-> <<>>,
     template |-> <<>>, rel_file_path |-> <<>>, id |-> 0, status |-> 0,
     reason |-> "", log |-> <<>>]

NoPrev == [arch |-> 0, user |-> "", clean |-> FALSE, written |-> {}]

IdleImp ==
    [pc |-> "idle", user |-> "", arch |-> 0, idx |-> 0, ok_count |-> 0,
     fail_count |-> 0, summary_lines |-> <<>>, safe_path |-> <<>>, id |-> 0,
     sess_bad |-> FALSE, status |-> 0, log |-> <<>>, written |-> {},
     stored |-> {}, conflicts |-> {}, faulted |-> FALSE, overlap |-> {},
     disturbed |-> FALSE, prev |-> NoPrev]

IdleDel ==
    [pc |-> "idle", user |-> "", ids |-> {}, rows |-> {}, todo |-> {},
     parent |-> <<>>, status |-> 0, kind |-> "batch", target |-> "",
     delete_files |-> FALSE, cascade |-> {}, returned |-> {}]

NoPure == [fn |-> "none"]

(* One BackgroundTasks object per request: runner k is the one of the k-th
   single upload, runner MaxUploads + i the one of the import on connection
   i, runner 0 the one of a request answered before the behaviour starts. *)
Runners == 0..(MaxUploads + MaxImports)

UploadRunner == count.uploads

ImportRunner(i) == MaxUploads + i

NoRow == [id |-> 0, path |-> <<>>, has_preview |-> FALSE, default_preview_path |-> <<>>]

IdleGen ==
    [todo |-> <<>>, pc |-> "load", row |-> NoRow, existing |-> 0, existing_path |-> <<>>,
     runs |-> <<>>]

(* the task is handed over twice *)
AddTask_Twice(gn, g, id) == [gn EXCEPT ![g].todo = Append(Append(@, id), id)]

(* background_tasks.add_task(generate_preview_in_background, id) *)
AddTask(gn, g, id) == [gn EXCEPT ![g].todo = Append(@, id)]

InitState ==
    /\ settings = [public_upload_enabled |-> FALSE, upload_path_template |-> DefaultTemplate]
    /\ dirs = {}
    /\ fdata = << >>
    /\ recs = << >>
    /\ tasks = {}
    /\ up = IdleUp
    /\ imp = [i \in ImportSlots |-> IdleImp]
    /\ loop = 0
    /\ del = IdleDel
    /\ count = [uploads |-> 0, imports |-> 0, deletes |-> 0, settings |-> 0, faults |-> 0]
    /\ lastImp = NoPrev
    /\ previews = << >>
    /\ pfiles = << >>
    /\ gen = [g \in Runners |-> IdleGen]
    /\ users = LoginUsers \cup {GuestUser}

Init == InitState /\ pure = NoPure

SetMax(S) == CHOOSE x \in S : \A y \in S : y <= x

(* the id the database gives the next File row (SQLite rowid) *)
NewId(rs) == IF DOMAIN rs = {} THEN 1 ELSE SetMax(DOMAIN rs) + 1

(* the File row store_new_file and store_file_from_archive insert *)
NewRow(contents, rel, owner, original_filename) ==
    [size |-> Len(contents), file_type |-> "base", path |-> rel, user_id |-> owner,
     original_filename |-> original_filename, has_preview |-> FALSE,
     default_preview_path |-> <<>>]

CanFault == count.faults < MaxFaults

(* the requests whose handler has started and has not ended *)
NumInFlight ==
    (IF up.pc \in {"idle", "done"} THEN 0 ELSE 1)
    + (IF del.pc \in {"idle", "done"} THEN 0 ELSE 1)
    + Cardinality({i \in DOMAIN imp : imp[i].pc \notin {"idle", "done"}})

CanRequest ==
    /\ count.uploads + count.imports + count.deletes + count.settings < MaxRequests
    /\ NumInFlight < MaxInFlight

Fault == [count EXCEPT !.faults = @ + 1]

(***************************************************************************)
(* PUT /admin/system-settings                                              *)
(***************************************************************************)
TemplateRejected(t) ==
    StartsWith(t, <<"/">>) \/ StartsWith(t, <<"\\">>) \/ Contains(t, <<".", ".">>)

update_system_settings(caller, payload) ==
    /\ loop = 0
    /\ CanRequest
    /\ count.settings < MaxSettings
    /\ count' = [count EXCEPT !.settings = @ + 1]
    /\ IF ~IsSuperAdmin(caller) \/ (payload.has_template /\ TemplateRejected(payload.template))
       THEN UNCHANGED settings
       ELSE settings' =
              [public_upload_enabled |->
                  IF payload.has_public THEN payload.public
                  ELSE settings.public_upload_enabled,
               upload_path_template |->
                  IF payload.has_template
                  THEN (IF Strip(payload.template, Whitespace) # <<>>
                        THEN Strip(payload.template, Whitespace)
                        ELSE DefaultTemplate)
                  ELSE settings.upload_path_template]
    /\ UNCHANGED <<dirs, fdata, recs, tasks, up, imp, loop, del, lastImp, pure, previews, pfiles, gen, users>>

(***************************************************************************)
(* POST /files/upload (a thread of the pool once dispatched)               *)
(***************************************************************************)
UploadEnd(status, reason, log) ==
    [IdleUp EXCEPT !.pc = "done", !.status = status, !.reason = reason, !.log = log,
                   !.user = up.user, !.rel_file_path = up.rel_file_path]

(* every policy rejection answered with 400 *)
RejectionStatus_Always400(v) == IF v = "ExceedsSizeLimitError" THEN 400 ELSE 400

(* upload.py 85-89: the status of the HTTPException for a policy rejection *)
RejectionStatus(v) == IF v = "ExceedsSizeLimitError" THEN 413 ELSE 400

(* no caller is refused for being anonymous *)
PublicUploadRefused_Never(user, st) == FALSE

(* upload.py 56-61: the settings row, and the check made when no user is
   logged in *)
PublicUploadRefused(user, st) == user = Anonymous /\ ~st.public_upload_enabled

(* upload.py 56-89: settings, public-upload check, read, validate_upload *)
UploadReceive(user, filename, contents) ==
    /\ loop = 0
    /\ up.pc \in {"idle", "done"}
    /\ CanRequest
    /\ count.uploads < MaxUploads
    /\ count' = [count EXCEPT !.uploads = @ + 1]
    /\ LET owner == IF user = Anonymous THEN GuestUser ELSE user
           v     == validate_upload(contents, filename, GroupSettingsOf(owner))
           end   == [IdleUp EXCEPT !.pc = "done", !.user = user]
           req   == [IdleUp EXCEPT !.user = user, !.owner = owner, !.filename = filename,
                                   !.contents = contents,
                                   !.template = settings.upload_path_template]
       IN  up' =
             IF PublicUploadRefused(user, settings)
             THEN [end EXCEPT !.status = 403, !.reason = "public"]
             ELSE IF contents = <<>>
             THEN [end EXCEPT !.status = 400, !.reason = "empty"]
             ELSE IF v # "ok"
             THEN [end EXCEPT !.status = RejectionStatus(v), !.reason = v,
                              !.log = <<"policy">>]
             ELSE [req EXCEPT !.pc = "mkdir", !.log = <<"policy">>]
    /\ UNCHANGED <<settings, dirs, fdata, recs, tasks, imp, loop, del, lastImp, pure, previews, pfiles, gen, users>>

(* helpers.py 121-141: render the template, os.makedirs, the hashed name *)
UploadMkdir(now) ==
    /\ up.pc = "mkdir"
    /\ LET template == IF up.template # <<>> THEN up.template ELSE DefaultTemplate
           rel_dir  == render_path_template(template, now)
           target   == disk_path(rel_dir)
           hashed_name == <<HashSyms[count.uploads]>> \o Lower(SplitextExt(up.filename))
           rel_file_path == IF rel_dir # <<>> THEN rel_dir \o <<"/">> \o hashed_name
                            ELSE hashed_name
       IN  IF MakedirsFails(fdata, target)
           THEN /\ up' = UploadEnd(500, "makedirs", up.log)
                /\ UNCHANGED dirs
           ELSE /\ dirs' = Makedirs(dirs, target)
                /\ up' = [up EXCEPT !.pc = "write", !.rel_file_path = rel_file_path,
                                    !.log = Append(@, "mkdir")]
    /\ UNCHANGED <<settings, fdata, recs, tasks, imp, loop, del, count, lastImp, pure, previews, pfiles, gen, users>>

(* helpers.py 143-145: open(abs_file_path, "wb") and write *)
UploadWrite ==
    /\ up.pc = "write"
    /\ LET key == disk_path(up.rel_file_path)
       IN  \/ /\ IF OpenFails(dirs, key)
                 THEN /\ up' = UploadEnd(500, "open", up.log)
                      /\ UNCHANGED fdata
                 ELSE /\ fdata' = WriteFile(fdata, key, up.contents)
                      /\ up' = [up EXCEPT !.pc = "commit", !.log = Append(@, "write")]
              /\ UNCHANGED count
           \/ /\ CanFault /\ ~OpenFails(dirs, key)    \* the disk fills up
              /\ count' = Fault
              /\ fdata' = WriteFile(fdata, key, <<>>)
              /\ up' = UploadEnd(500, "write", Append(up.log, "write"))
    /\ UNCHANGED <<settings, dirs, recs, tasks, imp, loop, del, lastImp, pure, previews, pfiles, gen, users>>

(* the row committed before the file is written *)
UploadCommit_BeforeWrite ==
    /\ up.pc = "write"
    /\ \/ /\ recs' = (NewId(recs) :> NewRow(up.contents, up.rel_file_path, up.owner, up.filename))
                     @@ recs
          /\ up' = [up EXCEPT !.pc = "classify", !.id = NewId(recs), !.log = Append(@, "commit")]
          /\ UNCHANGED count
       \/ /\ CanFault
          /\ count' = Fault
          /\ up' = UploadEnd(500, "commit", up.log)
          /\ UNCHANGED recs
    /\ UNCHANGED <<settings, dirs, fdata, tasks, imp, loop, del, lastImp, pure, previews, pfiles, gen, users>>

(* helpers.py 147-159: the File row, db.add, db.commit *)
UploadCommit ==
    /\ up.pc = "commit"
    /\ \/ /\ recs' = (NewId(recs) :> NewRow(up.contents, up.rel_file_path, up.owner, up.filename))
                     @@ recs
          /\ up' = [up EXCEPT !.pc = "classify", !.id = NewId(recs), !.log = Append(@, "commit")]
          /\ UNCHANGED count
       \/ /\ CanFault
          /\ count' = Fault
          /\ up' = UploadEnd(500, "commit", up.log)
          /\ UNCHANGED recs
    /\ UNCHANGED <<settings, dirs, fdata, tasks, imp, loop, del, lastImp, pure, previews, pfiles, gen, users>>

(* upload.py 100-119: file type, second commit, add_task, the response *)
UploadClassify ==
    /\ up.pc = "classify"
    /\ LET ftype == guess_file_type_by_extension(up.filename)
       IN  \/ /\ up.id \in DOMAIN recs
              /\ recs' = [recs EXCEPT ![up.id].file_type = ftype]
              /\ tasks' = IF ftype \in PREVIEW_GENERATORS THEN tasks \cup {up.id} ELSE tasks
              /\ gen' = IF ftype \in PREVIEW_GENERATORS THEN AddTask(gen, UploadRunner, up.id)
                        ELSE gen
              /\ up' = UploadEnd(200, "ok", IF ftype \in PREVIEW_GENERATORS
                                            THEN Append(up.log, "schedule") ELSE up.log)
              /\ UNCHANGED count
           \/ /\ up.id \notin DOMAIN recs     \* the row was deleted meanwhile
              /\ up' = UploadEnd(500, "stale", up.log)
              /\ UNCHANGED <<recs, tasks, gen, count>>
           \/ /\ CanFault /\ ftype # "base" /\ up.id \in DOMAIN recs
              /\ count' = Fault
              /\ up' = UploadEnd(500, "commit2", up.log)
              /\ UNCHANGED <<recs, tasks, gen>>
    /\ UNCHANGED <<settings, dirs, fdata, imp, loop, del, lastImp, pure, previews, pfiles, users>>

(***************************************************************************)
(* POST /files/bulk-upload.  The handler is a coroutine with a single      *)
(* await (archive.read()): from there to its return it occupies the event  *)
(* loop, so no other coroutine runs and no request is dispatched to the    *)
(* thread pool; handlers already running in pool threads go on running.    *)
(***************************************************************************)
(* every archive name is accepted *)
AcceptedArchiveName_Any(filename) == TRUE

AcceptedArchiveName(filename) ==
    LET name_lower == Lower(filename)
    IN  \/ EndsWith(name_lower, ZIP)
        \/ EndsWith(name_lower, TAR)
        \/ EndsWith(name_lower, TARGZ)
        \/ EndsWith(name_lower, TGZ)

IsZip(filename) == EndsWith(Lower(filename), ZIP)

(* upload.py 208-224: the entries the zip loop and the tar loop pass over *)
LoopSkips(archive, entry) ==
    IF IsZip(archive.filename) THEN entry.kind = "dir"
    ELSE entry.kind \in {"dir", "symlink", "hardlink"}

(* the bytes file_reader.read() returns *)
EntryData(entry) == IF entry.kind = "dir" THEN <<>> ELSE entry.data

InFlight(r) == r.pc \notin {"idle", "done"}

(* the response is sent: the handler's locals are gone *)
ImportEnd(r, status) ==
    [r EXCEPT !.pc = "done", !.status = status, !.safe_path = <<>>, !.id = 0,
              !.log = <<>>]

(* upload.py 144-151: the handler is called and checks the archive's name *)
ImportReceive(i, user, arch) ==
    /\ loop = 0
    /\ imp[i].pc = "idle"
    /\ \A j \in ImportSlots : j < i => imp[j].pc # "idle"
    /\ CanRequest
    /\ count.imports < MaxImports
    /\ count' = [count EXCEPT !.imports = @ + 1]
    /\ LET others == {j \in ImportSlots \ {i} : InFlight(imp[j])}
           req    == [IdleImp EXCEPT !.user = user, !.arch = arch]
       IN  imp' = [j \in ImportSlots |->
                    IF j = i
                    THEN IF AcceptedArchiveName(Archives[arch].filename)
                         THEN [req EXCEPT !.pc = "read", !.overlap = others]
                         ELSE [req EXCEPT !.pc = "done", !.status = 400]
                    ELSE IF j \in others /\ AcceptedArchiveName(Archives[arch].filename)
                         THEN [imp[j] EXCEPT !.overlap = @ \cup {i}]
                         ELSE imp[j]]
    /\ UNCHANGED <<settings, dirs, fdata, recs, tasks, up, loop, del, lastImp, pure, previews, pfiles, gen, users>>

(* the body of an import starting while another import's body runs *)
ImportBegin_Interleaved(i) ==
    /\ imp[i].pc = "read"
    /\ IF Archives[imp[i].arch].empty
       THEN /\ imp' = [imp EXCEPT ![i] = ImportEnd(imp[i], 400)]
            /\ UNCHANGED loop
       ELSE /\ imp' = [imp EXCEPT ![i].pc = "entry", ![i].idx = 1, ![i].prev = lastImp]
            /\ loop' = i
    /\ UNCHANGED <<settings, dirs, fdata, recs, tasks, up, del, count, lastImp, pure, previews, pfiles, gen, users>>

(* upload.py 153-161: data = await archive.read(); the body starts *)
ImportBegin(i) ==
    /\ imp[i].pc = "read"
    /\ loop = 0
    /\ IF Archives[imp[i].arch].empty
       THEN /\ imp' = [imp EXCEPT ![i] = ImportEnd(imp[i], 400)]
            /\ UNCHANGED loop
       ELSE /\ imp' = [imp EXCEPT ![i].pc = "entry", ![i].idx = 1, ![i].prev = lastImp]
            /\ loop' = i
    /\ UNCHANGED <<settings, dirs, fdata, recs, tasks, up, del, count, lastImp, pure, previews, pfiles, gen, users>>

Summary(r, status) ==
    [arch |-> r.arch, user |-> r.user,
     clean |-> status = 200 /\ ~r.faulted /\ ~r.disturbed,
     written |-> r.written]

(* the except clauses of _import_file: count the failure, go to the next entry *)
EntryFailed(r) ==
    [r EXCEPT !.pc = "entry", !.fail_count = @ + 1,
              !.summary_lines = Append(@, r.idx), !.idx = @ + 1]

(* the conflict check looking at the rows only *)
Conflict_RowsOnly(ds, fd, rs, safe_path) ==
    \E id \in DOMAIN rs : rs[id].path = safe_path

(* helpers.py 191-204: a file or directory at the path, or a row with it *)
Conflict(ds, fd, rs, safe_path) ==
    \/ PathExists(ds, fd, disk_path(safe_path))
    \/ \E id \in DOMAIN rs : rs[id].path = safe_path

(* upload.py 165-166 and 208-224: the members the loops pass over and the
   files _import_file returns from at once *)
Skipped(archive, entry) ==
    \/ LoopSkips(archive, entry)
    \/ entry.name = <<>>
    \/ EndsWith(entry.name, <<"/">>)
    \/ EntryData(entry) = <<>>

(* the index of the next entry the loop does not pass over: the one at
   which the container raises, or one past the last *)
RECURSIVE NextEntry(_, _)
NextEntry(archive, idx) ==
    IF idx > Len(archive.entries) \/ archive.failAt = idx
       \/ ~Skipped(archive, archive.entries[idx])
    THEN idx
    ELSE NextEntry(archive, idx + 1)

(* upload.py 163-189, 206-225 and helpers.py 183-204: the loop goes to the
   next entry that is not skipped; it is read, validated, sanitized and
   checked for a conflict *)
ImportEntry(i) ==
    /\ imp[i].pc = "entry"
    /\ LET archive == Archives[imp[i].arch]
           r       == [imp[i] EXCEPT !.idx = NextEntry(archive, imp[i].idx)]
           entry   == archive.entries[r.idx]
           gs      == GroupSettingsOf(r.user)
           safe    == _sanitize_archive_path(entry.name)
       IN  IF r.idx > Len(archive.entries)
           THEN /\ imp' = [imp EXCEPT ![i] = [r EXCEPT !.pc = "final", !.log = <<>>]]
                /\ UNCHANGED <<loop, lastImp>>
           ELSE IF archive.failAt = r.idx
           THEN \* the container raises: except Exception -> HTTPException(400)
                /\ imp' = [imp EXCEPT ![i] = ImportEnd(r, 400)]
                /\ loop' = 0
                /\ lastImp' = Summary(r, 400)
           ELSE IF r.sess_bad /\ gs.present
           THEN \* validate_upload reloads the expired settings row on a session
                \* whose transaction is rolled back: the error leaves _import_file
                /\ imp' = [imp EXCEPT ![i] = ImportEnd(r, 400)]
                /\ loop' = 0
                /\ lastImp' = Summary(r, 400)
           ELSE IF validate_upload(EntryData(entry), entry.name, gs) # "ok"
           THEN /\ imp' = [imp EXCEPT ![i] = [EntryFailed(r) EXCEPT !.log = <<"policy">>]]
                /\ UNCHANGED <<loop, lastImp>>
           ELSE IF r.sess_bad \/ safe = <<>> \/ (r.user \notin users /\ r.stored # {})
           THEN \* current_user.id on the rolled-back session or, its attributes
                \* expired by a commit, of a deleted user; or ValueError
                /\ imp' = [imp EXCEPT ![i] = [EntryFailed(r) EXCEPT !.log = <<"policy">>]]
                /\ UNCHANGED <<loop, lastImp>>
           ELSE IF Conflict(dirs, fdata, recs, safe)
           THEN /\ imp' = [imp EXCEPT ![i] = [EntryFailed(r) EXCEPT
                              !.log = <<"policy">>, !.conflicts = @ \cup {safe}]]
                /\ UNCHANGED <<loop, lastImp>>
           ELSE /\ imp' = [imp EXCEPT ![i] = [r EXCEPT !.pc = "mkdir", !.safe_path = safe,
                                                       !.log = <<"policy">>]]
                /\ UNCHANGED <<loop, lastImp>>
    /\ UNCHANGED <<settings, dirs, fdata, recs, tasks, up, del, count, pure, previews, pfiles, gen, users>>

(* helpers.py 206-208: os.makedirs(os.path.dirname(final_abs_path)) *)
ImportMkdir(i) ==
    /\ imp[i].pc = "mkdir"
    /\ LET r      == imp[i]
           target == ParentKey(disk_path(r.safe_path))
       IN  IF MakedirsFails(fdata, target)
           THEN /\ imp' = [imp EXCEPT ![i] = EntryFailed(r)]
                /\ UNCHANGED dirs
           ELSE /\ dirs' = Makedirs(dirs, target)
                /\ imp' = [imp EXCEPT ![i].pc = "write", ![i].log = Append(@, "mkdir")]
    /\ UNCHANGED <<settings, fdata, recs, tasks, up, loop, del, count, lastImp, pure, previews, pfiles, gen, users>>

(* helpers.py 209-210: open(final_abs_path, "wb") and write *)
ImportWrite(i) ==
    /\ imp[i].pc = "write"
    /\ LET r   == imp[i]
           key == disk_path(r.safe_path)
           entry == Archives[r.arch].entries[r.idx]
       IN  \/ /\ IF OpenFails(dirs, key)
                 THEN /\ imp' = [imp EXCEPT ![i] = EntryFailed(r)]
                      /\ UNCHANGED fdata
                 ELSE /\ fdata' = WriteFile(fdata, key, entry.data)
                      /\ imp' = [imp EXCEPT ![i].pc = "commit",
                                    ![i].log = Append(@, "write"),
                                    ![i].written = @ \cup {[key |-> key, data |-> entry.data]}]
              /\ UNCHANGED count
           \/ /\ CanFault /\ ~OpenFails(dirs, key)    \* the disk fills up
              /\ count' = Fault
              /\ fdata' = WriteFile(fdata, key, <<>>)
              /\ imp' = [imp EXCEPT ![i] = [EntryFailed(r) EXCEPT
                            !.faulted = TRUE, !.log = Append(r.log, "write"),
                            !.written = @ \cup {[key |-> key, data |-> <<>>]}]]
    /\ UNCHANGED <<settings, dirs, recs, tasks, up, loop, del, lastImp, pure, previews, pfiles, gen, users>>

(* helpers.py 212-224: the File row, db.add, db.commit *)
ImportCommit(i) ==
    /\ imp[i].pc = "commit"
    /\ LET r     == imp[i]
           entry == Archives[r.arch].entries[r.idx]
       IN  \/ /\ recs' = (NewId(recs) :> NewRow(entry.data, r.safe_path, r.user,
                                                Basename(entry.name))) @@ recs
              /\ imp' = [imp EXCEPT ![i].pc = "classify", ![i].id = NewId(recs),
                                    ![i].log = Append(@, "commit"),
                                    ![i].stored = @ \cup {r.safe_path}]
              /\ UNCHANGED count
           \/ /\ CanFault
              /\ count' = Fault
              /\ imp' = [imp EXCEPT ![i] = [EntryFailed(r) EXCEPT
                            !.faulted = TRUE, !.sess_bad = TRUE]]
              /\ UNCHANGED recs
    /\ UNCHANGED <<settings, dirs, fdata, tasks, up, loop, del, lastImp, pure, previews, pfiles, gen, users>>

(* upload.py 191-200: file type, second commit, add_task, ok_count *)
ImportClassify(i) ==
    /\ imp[i].pc = "classify"
    /\ LET r     == imp[i]
           entry == Archives[r.arch].entries[r.idx]
           ftype == guess_file_type_by_extension(Basename(entry.name))
           okay  == [r EXCEPT !.pc = "entry", !.ok_count = @ + 1, !.idx = @ + 1]
       IN  \/ /\ r.id \in DOMAIN recs
              /\ recs' = [recs EXCEPT ![r.id].file_type = ftype]
              /\ tasks' = IF ftype \in PREVIEW_GENERATORS THEN tasks \cup {r.id} ELSE tasks
              /\ gen' = IF ftype \in PREVIEW_GENERATORS THEN AddTask(gen, ImportRunner(i), r.id)
                        ELSE gen
              /\ imp' = [imp EXCEPT ![i] = [okay EXCEPT !.log =
                            IF ftype \in PREVIEW_GENERATORS THEN Append(@, "schedule") ELSE @]]
              /\ UNCHANGED count
           \/ /\ r.id \notin DOMAIN recs /\ ftype = "base"   \* nothing to flush
              /\ imp' = [imp EXCEPT ![i] = okay]
              /\ UNCHANGED <<recs, tasks, gen, count>>
           \/ /\ r.id \notin DOMAIN recs /\ ftype # "base"   \* UPDATE of a deleted row
              /\ imp' = [imp EXCEPT ![i] = [EntryFailed(r) EXCEPT !.sess_bad = TRUE]]
              /\ UNCHANGED <<recs, tasks, gen, count>>
           \/ /\ CanFault /\ ftype # "base" /\ r.id \in DOMAIN recs
              /\ count' = Fault
              /\ imp' = [imp EXCEPT ![i] = [EntryFailed(r) EXCEPT
                            !.faulted = TRUE, !.sess_bad = TRUE]]
              /\ UNCHANGED <<recs, tasks, gen>>
    /\ UNCHANGED <<settings, dirs, fdata, up, loop, del, lastImp, pure, previews, pfiles, users>>

(* an import with no stored entry answered with an error *)
ImportFinal_ErrorWhenAllFail(i) ==
    /\ imp[i].pc = "final"
    /\ LET status == IF imp[i].sess_bad \/ imp[i].ok_count = 0 THEN 500 ELSE 200
       IN  /\ imp' = [imp EXCEPT ![i] = ImportEnd(imp[i], status)]
           /\ lastImp' = Summary(imp[i], status)
    /\ loop' = 0
    /\ UNCHANGED <<settings, dirs, fdata, recs, tasks, up, del, count, pure, previews, pfiles, gen, users>>

(* upload.py 227-238: db.commit(), the report, the response *)
ImportFinal(i) ==
    /\ imp[i].pc = "final"
    /\ LET status == IF imp[i].sess_bad THEN 500 ELSE 200
       IN  /\ imp' = [imp EXCEPT ![i] = ImportEnd(imp[i], status)]
           /\ lastImp' = Summary(imp[i], status)
    /\ loop' = 0
    /\ UNCHANGED <<settings, dirs, fdata, recs, tasks, up, del, count, pure, previews, pfiles, gen, users>>

(***************************************************************************)
(* DELETE /files/batch-delete (a thread of the pool once dispatched)       *)
(***************************************************************************)
SetMin(S) == CHOOSE x \in S : \A y \in S : x <= y

(* history: a delete has removed something; the imports received so far    *)
(* are marked                                                              *)
Disturb(im) ==
    [j \in ImportSlots |->
        [im[j] EXCEPT !.prev = NoPrev,
                      !.disturbed = IF im[j].pc # "idle" THEN TRUE ELSE @]]

(* management.py 71-85: the request is dispatched; an empty id list is a 400 *)
DeleteReceive(user, ids) ==
    /\ loop = 0
    /\ del.pc \in {"idle", "done"}
    /\ CanRequest
    /\ count.deletes < MaxDeletes
    /\ count' = [count EXCEPT !.deletes = @ + 1]
    /\ del' = IF ids = {}
              THEN [IdleDel EXCEPT !.pc = "done", !.user = user, !.status = 400]
              ELSE [IdleDel EXCEPT !.pc = "query", !.user = user, !.ids = ids]
    /\ UNCHANGED <<settings, dirs, fdata, recs, tasks, up, imp, loop, lastImp, pure, previews, pfiles, gen, users>>

(* management.py 87-94: the rows with an id of the list, the caller's own
   unless the caller is in SUPER_ADMIN *)
DeleteQuery ==
    /\ del.pc = "query"
    /\ LET matching == {id \in del.ids \cap DOMAIN recs :
                           IsSuperAdmin(del.user) \/ recs[id].user_id = del.user}
           rows     == {[id |-> id, path |-> recs[id].path] : id \in matching}
       IN  del' = IF rows = {}
                  THEN [del EXCEPT !.pc = "done", !.status = 404, !.ids = {}]
                  ELSE [del EXCEPT !.pc = "file", !.rows = rows, !.todo = matching]
    /\ UNCHANGED <<settings, dirs, fdata, recs, tasks, up, imp, loop, count, lastImp, pure, previews, pfiles, gen, users>>

(* the FilePreview rows f.previews loads for the File row id *)
PreviewsOf(pv, id) == {p \in DOMAIN pv : pv[p].file_id = id}

(* admin/helpers.py 52-73: the next row's previews are loaded and their
   files removed, then the row's file is removed if it is a file *)
DeleteFile ==
    /\ del.pc = "file"
    /\ IF del.todo = {}
       THEN /\ del' = [del EXCEPT !.pc = IF del.kind = "user" THEN "ucommit" ELSE "commit"]
            /\ UNCHANGED <<fdata, pfiles, imp, lastImp>>
       ELSE LET id     == SetMin(del.todo)
                row    == CHOOSE r \in del.rows : r.id = id
                key    == disk_path(row.path)
                loaded == PreviewsOf(previews, id)
            IN  /\ pfiles' = [n \in (DOMAIN pfiles) \ {previews[p].storage_path : p \in loaded}
                                 |-> pfiles[n]]
                /\ IF IsFile(fdata, key)
                   THEN /\ fdata' = RemoveFile(fdata, key)
                        /\ del' = [del EXCEPT !.pc = "prune", !.todo = @ \ {id},
                                              !.parent = Dirname(row.path),
                                              !.cascade = @ \cup loaded]
                        /\ imp' = Disturb(imp)
                        /\ lastImp' = NoPrev
                   ELSE /\ del' = [del EXCEPT !.todo = @ \ {id}, !.cascade = @ \cup loaded]
                        /\ UNCHANGED <<fdata, imp, lastImp>>
    /\ UNCHANGED <<settings, dirs, recs, tasks, up, loop, count, pure, previews, gen, users>>

(* os.rmdir raises for a missing or non-empty directory and for a path
   whose last component is "." *)
RmdirFails(ds, fd, parent) ==
    \/ disk_path(parent) \notin ds
    \/ Listdir(ds, fd, disk_path(parent)) # {}
    \/ Basename(parent) = <<".">>

(* management.py 27-42: one turn of the loop of _cleanup_empty_dirs *)
_cleanup_empty_dirs ==
    /\ del.pc = "prune"
    /\ IF disk_path(del.parent) = <<>> \/ Escapes(del.parent)
          \/ RmdirFails(dirs, fdata, del.parent)
       THEN /\ del' = [del EXCEPT !.pc = "file", !.parent = <<>>]
            /\ UNCHANGED dirs
       ELSE /\ dirs' = dirs \ {disk_path(del.parent)}
            /\ del' = [del EXCEPT !.parent = Dirname(del.parent)]
    /\ UNCHANGED <<settings, fdata, recs, tasks, up, imp, loop, count, lastImp, pure, previews, pfiles, gen, users>>

(* management.py 100-104: db.delete of every row, which cascades to the
   previews loaded with it, db.commit, the list of the rows' ids *)
DeleteCommit ==
    /\ del.pc = "commit"
    /\ LET gone == {r.id : r \in del.rows}
       IN  \/ /\ recs' = [id \in (DOMAIN recs) \ gone |-> recs[id]]
              /\ previews' = [p \in (DOMAIN previews) \ del.cascade |-> previews[p]]
              /\ del' = [del EXCEPT !.pc = "done", !.status = 200, !.ids = {},
                                    !.returned = gone]
              /\ UNCHANGED count
           \/ /\ CanFault                \* db.commit raises: nothing is deleted
              /\ count' = Fault
              /\ del' = [del EXCEPT !.pc = "done", !.status = 500, !.ids = {}]
              /\ UNCHANGED <<recs, previews>>
    /\ imp' = Disturb(imp)
    /\ lastImp' = NoPrev
    /\ UNCHANGED <<settings, dirs, fdata, tasks, up, loop, pure, pfiles, gen, users>>

(***************************************************************************)
(* DELETE /admin/users/{user_id} (a thread of the pool once dispatched)    *)
(***************************************************************************)
IMMUTABLE_USERS == {"admin", GuestUser}

(* the delete-user requests a client sends *)
AdminInputs ==
    { [caller |-> "admin", user_id |-> "alice", delete_files |-> TRUE],
      [caller |-> "admin", user_id |-> "bob",   delete_files |-> FALSE],
      [caller |-> "admin", user_id |-> GuestUser, delete_files |-> TRUE],
      [caller |-> "alice", user_id |-> "bob",   delete_files |-> TRUE] }

(* admin/users.py 142-155: ensure_superadmin, the user's row, the protected
   groups, the user's sessions *)
delete_user(caller, user_id, delete_files) ==
    /\ loop = 0
    /\ del.pc \in {"idle", "done"}
    /\ CanRequest
    /\ count.deletes < MaxDeletes
    /\ count' = [count EXCEPT !.deletes = @ + 1]
    /\ LET req == [IdleDel EXCEPT !.user = caller, !.kind = "user", !.target = user_id,
                                  !.delete_files = delete_files]
       IN  del' = IF ~IsSuperAdmin(caller)
                  THEN [req EXCEPT !.pc = "done", !.status = 403]
                  ELSE IF user_id \notin users
                  THEN [req EXCEPT !.pc = "done", !.status = 404]
                  ELSE IF user_id \in IMMUTABLE_USERS
                  THEN [req EXCEPT !.pc = "done", !.status = 400]
                  ELSE [req EXCEPT !.pc = "ufiles"]
    /\ UNCHANGED <<settings, dirs, fdata, recs, tasks, up, imp, loop, lastImp, pure,
                   previews, pfiles, gen, users>>

(* admin/users.py 158-160: q_files.all() handed to delete_physical_files *)
UserFiles ==
    /\ del.pc = "ufiles"
    /\ LET owned == {id \in DOMAIN recs : recs[id].user_id = del.target}
           rows  == {[id |-> id, path |-> recs[id].path] : id \in owned}
       IN  del' = IF del.delete_files
                  THEN [del EXCEPT !.pc = "file", !.rows = rows, !.todo = owned]
                  ELSE [del EXCEPT !.pc = "ucommit"]
    /\ UNCHANGED <<settings, dirs, fdata, recs, tasks, up, imp, loop, count, lastImp, pure,
                   previews, pfiles, gen, users>>

(* the reassignment also empties the size of the rows it moves *)
UserCommit_Resizes ==
    /\ del.pc = "ucommit"
    /\ recs' = IF del.delete_files
               THEN [id \in {k \in DOMAIN recs : recs[k].user_id # del.target} |-> recs[id]]
               ELSE [id \in DOMAIN recs |->
                        IF recs[id].user_id = del.target
                        THEN [recs[id] EXCEPT !.user_id = GuestUser, !.size = 0]
                        ELSE recs[id]]
    /\ users' = users \ {del.target}
    /\ del' = [del EXCEPT !.pc = "done", !.status = 200]
    /\ imp' = Disturb(imp)
    /\ lastImp' = NoPrev
    /\ UNCHANGED <<settings, dirs, fdata, tasks, up, loop, count, pure, previews, pfiles, gen>>

(* admin/users.py 161-172: the bulk DELETE (or the bulk UPDATE to the guest)
   of the user's File rows, db.delete(usr), db.commit.  The bulk DELETE is
   one SQL statement: no FilePreview row goes with it, the ORM cascade is not
   run and db/database.py leaves SQLite's foreign keys unenforced. *)
UserCommit ==
    /\ del.pc = "ucommit"
    /\ recs' = IF del.delete_files
               THEN [id \in {k \in DOMAIN recs : recs[k].user_id # del.target} |-> recs[id]]
               ELSE [id \in DOMAIN recs |->
                        IF recs[id].user_id = del.target
                        THEN [recs[id] EXCEPT !.user_id = GuestUser] ELSE recs[id]]
    /\ users' = users \ {del.target}
    /\ del' = [del EXCEPT !.pc = "done", !.status = 200]
    /\ imp' = Disturb(imp)
    /\ lastImp' = NoPrev
    /\ UNCHANGED <<settings, dirs, fdata, tasks, up, loop, count, pure, previews, pfiles, gen>>

(***************************************************************************)
(* generate_preview_in_background: the tasks of one request run one after  *)
(* another in a thread of the pool once the response is sent; the tasks of *)
(* different requests run side by side.                                    *)
(***************************************************************************)
(* the byte strings Image.open decodes *)
DecodableImages == {<<1>>, <<2>>}

THUMB == <<"_", "2", "5", "6">>

(* image_preview.py 26-33: <base>_256<ext>, ".jpg" for a name without one *)
preview_filename(rel_path) ==
    LET file_name == Basename(rel_path)
        ext       == SplitextExt(file_name)
        base      == SubSeq(file_name, 1, Len(file_name) - Len(ext))
    IN  base \o THUMB \o (IF ext = <<>> THEN <<".", "j", "p", "g">> ELSE Lower(ext))

(* the response of the request is sent: its tasks may run *)
GenRunnable(g) ==
    \/ g <= MaxUploads
    \/ /\ g > MaxUploads
       /\ imp[g - MaxUploads].pc = "done"
       /\ imp[g - MaxUploads].status = 200

(* the task returns or raises: the next task of the request is taken *)
GenEnd(r, outcome) ==
    [r EXCEPT !.todo = Tail(@), !.pc = "load", !.row = NoRow, !.existing = 0,
              !.existing_path = <<>>,
              !.runs = Append(@, [id |-> Head(r.todo), outcome |-> outcome])]

(* preview.py 27-36 and image_preview.py 17-23: the File row, its generator,
   its path, os.path.isfile *)
GenLoad(g) ==
    /\ GenRunnable(g)
    /\ gen[g].todo # <<>>
    /\ gen[g].pc = "load"
    /\ LET id == Head(gen[g].todo)
       IN  gen' = [gen EXCEPT ![g] =
                IF id \notin DOMAIN recs THEN GenEnd(@, "no file")
                ELSE IF recs[id].file_type \notin PREVIEW_GENERATORS
                THEN GenEnd(@, "no generator")
                ELSE IF recs[id].path = <<>> \/ ~IsFile(fdata, disk_path(recs[id].path))
                THEN GenEnd(@, "nothing")
                ELSE [@ EXCEPT !.pc = "save",
                               !.row = [id |-> id, path |-> recs[id].path,
                                        has_preview |-> recs[id].has_preview,
                                        default_preview_path |->
                                            recs[id].default_preview_path]]]
    /\ UNCHANGED <<settings, dirs, fdata, recs, tasks, up, imp, loop, del, count, lastImp,
                   pure, previews, pfiles, users>>

(* image_preview.py 35-40 and 64-65: Image.open, convert, thumbnail, save;
   whatever is raised is swallowed *)
GenSave(g) ==
    /\ gen[g].pc = "save"
    /\ LET key  == disk_path(gen[g].row.path)
           name == preview_filename(gen[g].row.path)
           readable == IsFile(fdata, key) /\ fdata[key] \in DecodableImages
       IN  \/ /\ IF readable
                 THEN /\ pfiles' = (name :> gen[g].row.id) @@ pfiles
                      /\ gen' = [gen EXCEPT ![g].pc = "query"]
                 ELSE /\ gen' = [gen EXCEPT ![g] = GenEnd(@, "failed")]
                      /\ UNCHANGED pfiles
              /\ UNCHANGED count
           \/ /\ CanFault /\ readable           \* the disk fills up during img.save
              /\ count' = Fault
              /\ pfiles' = (name :> gen[g].row.id) @@ pfiles
              /\ gen' = [gen EXCEPT ![g] = GenEnd(@, "failed")]
    /\ UNCHANGED <<settings, dirs, fdata, recs, tasks, up, imp, loop, del, lastImp,
                   pure, previews, users>>

(* image_preview.py 42-47: the FilePreview row of the file and the kind *)
GenQuery(g) ==
    /\ gen[g].pc = "query"
    /\ LET found == {p \in PreviewsOf(previews, gen[g].row.id) :
                        previews[p].preview_type = "thumbnail_256"}
       IN  gen' = [gen EXCEPT ![g].pc = "commit",
                              ![g].existing = IF found = {} THEN 0 ELSE SetMin(found),
                              ![g].existing_path =
                                  IF found = {} THEN <<>>
                                  ELSE previews[SetMin(found)].storage_path]
    /\ UNCHANGED <<settings, dirs, fdata, recs, tasks, up, imp, loop, del, count, lastImp,
                   pure, previews, pfiles, users>>

(* image_preview.py 48-63 and preview.py 41: the new or the updated
   FilePreview, has_preview and default_preview_path, db.commit.  The flush
   writes the changed File row first: an UPDATE that matches no row raises
   and the transaction is rolled back. *)
GenCommit(g) ==
    /\ gen[g].pc = "commit"
    /\ LET row   == gen[g].row
           name  == preview_filename(row.path)
           ex    == gen[g].existing
           dirty == ~row.has_preview \/ row.default_preview_path # name
           moved == ex # 0 /\ gen[g].existing_path # name
           stale == \/ dirty /\ row.id \notin DOMAIN recs
                    \/ moved /\ ex \notin DOMAIN previews
       IN  IF stale
           THEN /\ gen' = [gen EXCEPT ![g] = GenEnd(@, "stale")]
                /\ UNCHANGED <<recs, previews>>
           ELSE /\ recs' = IF dirty
                           THEN [recs EXCEPT ![row.id].has_preview = TRUE,
                                             ![row.id].default_preview_path = name]
                           ELSE recs
                /\ previews' =
                      IF ex = 0
                      THEN (NewId(previews) :>
                               [file_id |-> row.id, preview_type |-> "thumbnail_256",
                                storage_path |-> name]) @@ previews
                      ELSE IF moved THEN [previews EXCEPT ![ex].storage_path = name]
                      ELSE previews
                /\ gen' = [gen EXCEPT ![g] = GenEnd(@, "ok")]
    /\ UNCHANGED <<settings, dirs, fdata, tasks, up, imp, loop, del, count, lastImp,
                   pure, pfiles, users>>

(***************************************************************************)
(* The system                                                              *)
(***************************************************************************)
(* dependencies/auth.py: a token of a user that exists, or no token where
   the endpoint takes the optional user *)
Authenticated(user) == user = Anonymous \/ user \in users

UploadStep ==
    \/ \E in \in UploadInputs :
          Authenticated(in.user) /\ UploadReceive(in.user, in.filename, in.contents)
    \/ \E now \in Timestamps : UploadMkdir(now)
    \/ UploadWrite
    \/ UploadCommit
    \/ UploadClassify

ImportStep ==
    \/ \E i \in ImportSlots, in \in ImportInputs :
          Authenticated(in.user) /\ ImportReceive(i, in.user, in.arch)
    \/ \E i \in ImportSlots :
          \/ ImportBegin(i)
          \/ ImportEntry(i)
          \/ ImportMkdir(i)
          \/ ImportWrite(i)
          \/ ImportCommit(i)
          \/ ImportClassify(i)
          \/ ImportFinal(i)

DeleteStep ==
    \/ \E in \in DeleteInputs : Authenticated(in.user) /\ DeleteReceive(in.user, in.ids)
    \/ DeleteQuery
    \/ DeleteFile
    \/ _cleanup_empty_dirs
    \/ DeleteCommit

SettingsStep ==
    \E caller \in SettingsCallers, payload \in SettingsPayloads :
        Authenticated(caller) /\ update_system_settings(caller, payload)

Next == UploadStep \/ ImportStep \/ DeleteStep \/ SettingsStep

Spec == Init /\ [][Next]_vars

(***************************************************************************)
(* The system with its background tasks and the deletion of users, from a  *)
(* store in use: the administrator has set the template "e/."; bob has     *)
(* imported d/a.png, whose preview exists; alice has imported e/a.png and  *)
(* the preview task of her import has not run yet.  Single uploads, batch  *)
(* deletes, deletions of users and the background tasks go on from there.  *)
(***************************************************************************)
D_A_PNG == <<"d", "/", "a", ".", "p", "n", "g">>

E_A_PNG == <<"e", "/", "a", ".", "p", "n", "g">>

InitPreview ==
    /\ settings = [public_upload_enabled |-> FALSE, upload_path_template |-> <<"e", "/", ".">>]
    /\ dirs = Makedirs(Makedirs({}, ParentKey(disk_path(D_A_PNG))),
                       ParentKey(disk_path(E_A_PNG)))
    /\ fdata = WriteFile(WriteFile(<< >>, disk_path(D_A_PNG), <<1>>),
                         disk_path(E_A_PNG), <<1>>)
    /\ recs = (1 :> [NewRow(<<1>>, D_A_PNG, "bob", Basename(D_A_PNG))
                        EXCEPT !.file_type = "image", !.has_preview = TRUE,
                               !.default_preview_path = preview_filename(D_A_PNG)])
              @@ (2 :> [NewRow(<<1>>, E_A_PNG, "alice", Basename(E_A_PNG))
                        EXCEPT !.file_type = "image"])
    /\ tasks = {1, 2}
    /\ up = IdleUp
    /\ imp = [i \in ImportSlots |-> IdleImp]
    /\ loop = 0
    /\ del = IdleDel
    /\ count = [uploads |-> 0, imports |-> 0, deletes |-> 0, settings |-> 0, faults |-> 0]
    /\ lastImp = NoPrev
    /\ pure = NoPure
    /\ previews = (1 :> [file_id |-> 1, preview_type |-> "thumbnail_256",
                         storage_path |-> preview_filename(D_A_PNG)])
    /\ pfiles = (preview_filename(D_A_PNG) :> 1)
    /\ gen = AddTask([g \in Runners |-> IdleGen], 0, 2)
    /\ users = LoginUsers \cup {GuestUser}

GenStep ==
    \E g \in Runners :
        \/ GenLoad(g)
        \/ GenSave(g)
        \/ GenQuery(g)
        \/ GenCommit(g)

AdminStep ==
    \/ \E in \in AdminInputs :
          Authenticated(in.caller) /\ delete_user(in.caller, in.user_id, in.delete_files)
    \/ UserFiles
    \/ UserCommit

NextPreview == UploadStep \/ DeleteStep \/ GenStep \/ AdminStep

SpecPreview == InitPreview /\ [][NextPreview]_vars

(***************************************************************************)
(* The empty store with single uploads, bulk imports and the background    *)
(* tasks they schedule: no row is ever deleted, so every id names one      *)
(* File row for the whole behaviour.                                       *)
(***************************************************************************)
NextSchedule == UploadStep \/ ImportStep \/ GenStep

SpecSchedule == Init /\ [][NextSchedule]_vars

(***************************************************************************)
(* The empty store, under the default template or under the template       *)
(* "e/." the administrator has set, with single uploads, batch deletes and *)
(* the background tasks, one after another: a delete is received while no *)
(* upload and no background task is under way; an upload is received and a *)
(* background task begins while no delete is under way.                    *)
(***************************************************************************)
RoundTripTemplates == {DefaultTemplate, <<"e", "/", ".">>}

InitRoundTrip ==
    /\ settings \in { [public_upload_enabled |-> FALSE, upload_path_template |-> t] :
                      t \in RoundTripTemplates }
    /\ dirs = {}
    /\ fdata = << >>
    /\ recs = << >>
    /\ tasks = {}
    /\ up = IdleUp
    /\ imp = [i \in ImportSlots |-> IdleImp]
    /\ loop = 0
    /\ del = IdleDel
    /\ count = [uploads |-> 0, imports |-> 0, deletes |-> 0, settings |-> 0, faults |-> 0]
    /\ lastImp = NoPrev
    /\ pure = NoPure
    /\ previews = << >>
    /\ pfiles = << >>
    /\ gen = [g \in Runners |-> IdleGen]
    /\ users = LoginUsers \cup {GuestUser}

NoTaskUnderWay == \A g \in Runners : gen[g].pc = "load"

NoUploadUnderWay == up.pc \in {"idle", "done"}

NoDeleteUnderWay == del.pc \in {"idle", "done"}

NextRoundTrip ==
    \/ \E in \in UploadInputs :
          /\ NoDeleteUnderWay
          /\ Authenticated(in.user)
          /\ UploadReceive(in.user, in.filename, in.contents)
    \/ \E now \in Timestamps : UploadMkdir(now)
    \/ UploadWrite
    \/ UploadCommit
    \/ UploadClassify
    \/ \E in \in DeleteInputs :
          /\ NoUploadUnderWay
          /\ NoTaskUnderWay
          /\ Authenticated(in.user)
          /\ DeleteReceive(in.user, in.ids)
    \/ DeleteQuery
    \/ DeleteFile
    \/ _cleanup_empty_dirs
    \/ DeleteCommit
    \/ \E g \in Runners : NoDeleteUnderWay /\ GenLoad(g)
    \/ \E g \in Runners : GenSave(g)
    \/ \E g \in Runners : GenQuery(g)
    \/ \E g \in Runners : GenCommit(g)

SpecRoundTrip == InitRoundTrip /\ [][NextRoundTrip]_vars

(***************************************************************************)
(* validate_upload on its own: every call of the bounded input space       *)
(***************************************************************************)
ValidateData == {<<>>, <<1>>, <<1, 2>>, <<1, 2, 3>>}

ValidateNames ==
    { <<"a", ".", "p", "n", "g">>, A_PNG, <<"a", ".", "j", "p", "g">>, <<"a">>,
      <<"a", ".">>, <<".", "p", "n", "g">>, <<"a", ".", "p", "n", "g", ".", "b">> }

ValidateLimits ==
    { [size_null |-> TRUE, max_file_size |-> 0], [size_null |-> FALSE, max_file_size |-> 0],
      [size_null |-> FALSE, max_file_size |-> 2] }

ValidateLists ==
    { [ext_null |-> TRUE,  allowed_extensions |-> <<>>],
      [ext_null |-> FALSE, allowed_extensions |-> <<>>],
      [ext_null |-> FALSE, allowed_extensions |-> <<PNG>>],
      [ext_null |-> FALSE, allowed_extensions |-> << <<"j", "p", "g">>, <<"P", "N", "G">> >>],
      [ext_null |-> FALSE, allowed_extensions |-> << <<>> >>] }

ValidatePolicies ==
    { [present |-> FALSE, size_null |-> TRUE, max_file_size |-> 0, ext_null |-> TRUE,
       allowed_extensions |-> <<>>] }
    \cup { [present |-> TRUE, size_null |-> l.size_null, max_file_size |-> l.max_file_size,
            ext_null |-> e.ext_null, allowed_extensions |-> e.allowed_extensions] :
           l \in ValidateLimits, e \in ValidateLists }

InitValidate ==
    /\ InitState
    /\ pure \in { [fn |-> "validate_upload", file_data |-> d, filename |-> f,
                   group_settings |-> g, returned |-> FALSE, result |-> ""] :
                  d \in ValidateData, f \in ValidateNames, g \in ValidatePolicies }

CallValidate ==
    /\ pure.fn = "validate_upload"
    /\ ~pure.returned
    /\ pure' = [pure EXCEPT !.returned = TRUE,
                            !.result = validate_upload(pure.file_data, pure.filename,
                                                       pure.group_settings)]
    /\ UNCHANGED <<settings, dirs, fdata, recs, tasks, up, imp, loop, del, count, lastImp, previews, pfiles, gen, users>>

NextValidate == CallValidate

SpecValidate == InitValidate /\ [][NextValidate]_vars

(***************************************************************************)
(* _sanitize_archive_path alone: one call on a name an archive can hold,   *)
(* every string of at most MaxPathLen characters over PathAlphabet.        *)
(***************************************************************************)
MaxPathLen == 4

PathAlphabet == {"a", ".", "/", "\\"}

SanitizeInputs == UNION {[1..n -> PathAlphabet] : n \in 0..MaxPathLen}

InitSanitize ==
    /\ InitState
    /\ pure \in { [fn |-> "_sanitize_archive_path", path_in_archive |-> p,
                   returned |-> FALSE, result |-> <<>>] : p \in SanitizeInputs }

CallSanitize ==
    /\ pure.fn = "_sanitize_archive_path"
    /\ ~pure.returned
    /\ pure' = [pure EXCEPT !.returned = TRUE,
                            !.result = _sanitize_archive_path(pure.path_in_archive)]
    /\ UNCHANGED <<settings, dirs, fdata, recs, tasks, up, imp, loop, del, count, lastImp, previews, pfiles, gen, users>>

NextSanitize == CallSanitize

SpecSanitize == InitSanitize /\ [][NextSanitize]_vars

(***************************************************************************)
(* render_path_template alone: two calls with the same arguments, on every *)
(* template of at most MaxTemplateLen pieces (a token or a literal         *)
(* character each) and on the timestamps of RenderTimestamps.              *)
(***************************************************************************)
MaxTemplateLen == 3

Tokens == {"Y", "m", "d", "H", "M", "S"}

TemplatePieces == Tokens \cup {"a", "/", "\\"}

RenderTimestamps ==
    { [Y |-> 2025, m |-> 4,  d |-> 7,  H |-> 3,  M |-> 5,  S |-> 9, pads |-> TRUE],
      [Y |-> 987,  m |-> 12, d |-> 31, H |-> 23, M |-> 59, S |-> 0, pads |-> TRUE],
      [Y |-> 987,  m |-> 12, d |-> 31, H |-> 23, M |-> 59, S |-> 0, pads |-> FALSE] }

(* the text of a template given by its pieces: "{Y}" for the token Y *)
RECURSIVE TemplateText(_)
TemplateText(pieces) ==
    IF pieces = <<>> THEN <<>>
    ELSE (IF Head(pieces) \in Tokens THEN <<"{", Head(pieces), "}">> ELSE <<Head(pieces)>>)
         \o TemplateText(Tail(pieces))

InitRender ==
    /\ InitState
    /\ pure \in { [fn |-> "render_path_template", pieces |-> ps,
                   template |-> TemplateText(ps), now |-> t, results |-> <<>>] :
                  ps \in UNION {[1..n -> TemplatePieces] : n \in 0..MaxTemplateLen},
                  t \in RenderTimestamps }

CallRender ==
    /\ pure.fn = "render_path_template"
    /\ Len(pure.results) < 2
    /\ pure' = [pure EXCEPT !.results =
                    Append(@, render_path_template(pure.template, pure.now))]
    /\ UNCHANGED <<settings, dirs, fdata, recs, tasks, up, imp, loop, del, count, lastImp, previews, pfiles, gen, users>>

NextRender == CallRender

SpecRender == InitRender /\ [][NextRender]_vars

(***************************************************************************)
(* _import_file up to the choice of the stored path: the early returns,    *)
(* the policy check on the raw member name, and the sanitized name that    *)
(* store_file_from_archive keeps as FileRecord.storage_data.path.          *)
(***************************************************************************)
MaxNameLen == 4

NameAlphabet == {"a", "p", "P", ".", "/", "\\"}

MemberNames == UNION {[1..n -> NameAlphabet] : n \in 0..MaxNameLen}

ImportLists ==
    { << <<"p">> >>, << <<"P">>, <<"a">> >>, << <<>>, <<"p">> >>, << <<"a", "/", "p">> >> }

ImportPolicies ==
    { [present |-> TRUE, size_null |-> TRUE, max_file_size |-> 0, ext_null |-> FALSE,
       allowed_extensions |-> l] : l \in ImportLists }

(* the entry is stored whatever its extension *)
_import_file_NoPolicy(member_name, data, group_settings) ==
    IF member_name = <<>> \/ EndsWith(member_name, <<"/">>) \/ data = <<>>
    THEN [outcome |-> "skipped", path |-> <<>>]
    ELSE IF _sanitize_archive_path(member_name) = <<>>
    THEN [outcome |-> "ValueError", path |-> <<>>]
    ELSE [outcome |-> "stored", path |-> _sanitize_archive_path(member_name)]

_import_file(member_name, data, group_settings) ==
    IF member_name = <<>> \/ EndsWith(member_name, <<"/">>) \/ data = <<>>
    THEN [outcome |-> "skipped", path |-> <<>>]
    ELSE IF validate_upload(data, member_name, group_settings) # "ok"
    THEN [outcome |-> validate_upload(data, member_name, group_settings), path |-> <<>>]
    ELSE IF _sanitize_archive_path(member_name) = <<>>
    THEN [outcome |-> "ValueError", path |-> <<>>]
    ELSE [outcome |-> "stored", path |-> _sanitize_archive_path(member_name)]

InitImportName ==
    /\ InitState
    /\ pure \in { [fn |-> "_import_file", member_name |-> n, group_settings |-> gs,
                   returned |-> FALSE, result |-> [outcome |-> "", path |-> <<>>]] :
                  n \in MemberNames, gs \in ImportPolicies }

CallImportName ==
    /\ pure.fn = "_import_file"
    /\ ~pure.returned
    /\ pure' = [pure EXCEPT !.returned = TRUE,
                            !.result = _import_file(pure.member_name, <<1>>,
                                                    pure.group_settings)]
    /\ UNCHANGED <<settings, dirs, fdata, recs, tasks, up, imp, loop, del, count, lastImp, previews, pfiles, gen, users>>

NextImportName == CallImportName

SpecImportName == InitImportName /\ [][NextImportName]_vars

(***************************************************************************)
(* Properties                                                              *)
(***************************************************************************)
Segments(path) == Split(path, "/")

(* the order of the steps of one upload or one entry *)
StepRank(step) ==
    CASE step = "policy"   -> 1
      [] step = "mkdir"    -> 2
      [] step = "write"    -> 3
      [] step = "commit"   -> 4
      [] step = "schedule" -> 5

InOrder(log) ==
    /\ \A a, b \in 1..Len(log) : a < b => StepRank(log[a]) < StepRank(log[b])
    /\ log # <<>> => log[1] = "policy"
    /\ \A a \in 1..Len(log) : log[a] = "commit" => a > 1 /\ log[a - 1] = "write"
    /\ \A a \in 1..Len(log) : log[a] = "schedule" => a > 1 /\ log[a - 1] = "commit"

FullLog == <<"policy", "mkdir", "write", "commit", "schedule">>

(* C3: every FileRecord's path is non-empty and relative: it has no leading
   separator and no ".." segment, and resolving it from the upload root
   never leaves the root *)
C3_PathsRelative ==
    \A id \in DOMAIN recs :
        LET path == recs[id].path
        IN  /\ path # <<>>
            /\ path[1] \notin {"/", "\\"}
            /\ \A k \in 1..Len(Segments(path)) : Segments(path)[k] # <<".", ".">>
            /\ ~Escapes(path)

(* a row of an upload made while the stored template is "/a" *)
C3_Witness ==
    /\ settings.upload_path_template = <<"/", "a">>
    /\ \E id \in DOMAIN recs : recs[id].path = <<"a", "/", "h1", ".", "p", "n", "g">>

(* C5: within one upload and within one bulk-import entry the policy check
   comes before any directory creation or write, the write before the
   record's commit, and the commit before the preview is scheduled *)
C5_StepOrder ==
    /\ InOrder(up.log)
    /\ \A i \in ImportSlots : InOrder(imp[i].log)

(* an upload and an entry that each went through every step *)
C5_Witness ==
    /\ up.pc = "done" /\ up.status = 200 /\ up.log = FullLog
    /\ \E i \in ImportSlots : imp[i].log = FullLog

(* C8: validate_upload returns what the reference rule gives: no policy
   accepts; else a length above a non-null max_file_size is a size
   rejection; else a non-empty allowed_extensions none of whose entries
   equals, ignoring case, the text after the filename's last "." (empty
   without a ".") is an extension rejection; else the file is accepted.
   A null limit and a null or empty list never reject. *)
ReferenceExtension(filename) ==
    LET k == LastIndex(filename, ".")
    IN  IF k = 0 THEN <<>> ELSE Lower(SubSeq(filename, k + 1, Len(filename)))

ReferenceVerdict(length, filename, policy) ==
    CASE ~policy.present -> "ok"
      [] policy.present /\ ~policy.size_null /\ length > policy.max_file_size ->
            "ExceedsSizeLimitError"
      [] OTHER ->
            IF /\ ~policy.ext_null
               /\ policy.allowed_extensions # <<>>
               /\ \A k \in 1..Len(policy.allowed_extensions) :
                     Lower(policy.allowed_extensions[k]) # ReferenceExtension(filename)
            THEN "ExtensionNotAllowedError"
            ELSE "ok"

C8_ValidateAgrees ==
    (pure.fn = "validate_upload" /\ pure.returned) =>
        /\ pure.result = ReferenceVerdict(Len(pure.file_data), pure.filename,
                                          pure.group_settings)
        /\ pure.group_settings.size_null => pure.result # "ExceedsSizeLimitError"
        /\ (pure.group_settings.ext_null \/ pure.group_settings.allowed_extensions = <<>>)
              => pure.result # "ExtensionNotAllowedError"

(* a file within the size limit whose extension is refused although the
   list holds it in another case of letters for another name *)
C8_Witness ==
    /\ pure.fn = "validate_upload" /\ pure.returned
    /\ pure.result = "ExtensionNotAllowedError"
    /\ ~pure.group_settings.size_null
    /\ Len(pure.file_data) = pure.group_settings.max_file_size
    /\ pure.filename = <<"a", ".", "p", "n", "g", ".", "b">>

(* the import has taken a step of its own *)
Stepped(r, rr) == rr.pc # r.pc \/ rr.idx # r.idx

(* the index of the entry an import at the head of its loop takes next *)
Upcoming(r) == NextEntry(Archives[r.arch], r.idx)

CurrentEntry(r) == Archives[r.arch].entries[Upcoming(r)]

(* the import is about to take an entry and hand it to _import_file on a
   usable database session *)
AtEntry(r) ==
    /\ r.pc = "entry"
    /\ Upcoming(r) <= Len(Archives[r.arch].entries)
    /\ Archives[r.arch].failAt # Upcoming(r)
    /\ ~r.sess_bad

PolicyAccepts(r) ==
    validate_upload(EntryData(CurrentEntry(r)), CurrentEntry(r).name,
                    GroupSettingsOf(r.user)) = "ok"

CountedAsFailure(r, rr) ==
    /\ rr.fail_count = r.fail_count + 1
    /\ rr.ok_count = r.ok_count
    /\ rr.summary_lines = Append(r.summary_lines, Upcoming(r))
    /\ rr.pc = "entry"
    /\ rr.idx = Upcoming(r) + 1

RowWithPath(rs, path) == \E id \in DOMAIN rs : rs[id].path = path

(* the number of regular-file, non-zero-length entries of an archive *)
RegularEntries(arch) ==
    Cardinality({k \in 1..Len(Archives[arch].entries) :
                    /\ Archives[arch].entries[k].kind = "file"
                    /\ Archives[arch].entries[k].data # <<>>})

(* C1: when an import that ended with a summary and met no fault is
   followed, with no delete in between, by an import of the same archive by
   the same user, the second one reports success = 0 and failed = N, N being
   the number of regular-file, non-zero-length entries, and every file the
   first one wrote still holds the bytes it wrote *)
C1_ReimportAllFail ==
    \A i \in ImportSlots :
        ( /\ imp[i].pc = "done" /\ imp[i].status = 200
          /\ imp[i].prev.clean
          /\ imp[i].prev.arch = imp[i].arch
          /\ imp[i].prev.user = imp[i].user )
        => /\ imp[i].ok_count = 0
           /\ imp[i].fail_count = RegularEntries(imp[i].arch)
           /\ \A w \in imp[i].prev.written :
                 w.key \in DOMAIN fdata /\ fdata[w.key] = w.data

(* C2: an entry whose sanitized path exists on disk, or is the path of a
   row (even one whose file is missing), is counted as a failure in a step
   that leaves directories, files and rows as they are; and the write of an
   entry never changes a file that existed *)
C2_ConflictKeepsState ==
    [][ \A i \in ImportSlots :
          LET safe == _sanitize_archive_path(CurrentEntry(imp[i]).name)
          IN  /\ ( /\ AtEntry(imp[i]) /\ Stepped(imp[i], imp'[i])
                   /\ PolicyAccepts(imp[i])
                   /\ safe # <<>>
                   /\ \/ PathExists(dirs, fdata, disk_path(safe))
                      \/ RowWithPath(recs, safe) )
                 => /\ CountedAsFailure(imp[i], imp'[i])
                    /\ UNCHANGED <<dirs, fdata, recs>>
              /\ (imp[i].pc = "write" /\ Stepped(imp[i], imp'[i]))
                 => \A k \in DOMAIN fdata : k \in DOMAIN fdata' /\ fdata'[k] = fdata[k]
      ]_vars

(* an entry failed on a path that only a row holds: its file is gone *)
C2_Witness ==
    \E i \in ImportSlots : \E P \in imp[i].conflicts :
        /\ ~PathExists(dirs, fdata, disk_path(P))
        /\ RowWithPath(recs, P)
        /\ imp[i].fail_count >= 1

(* the entries of an import that pass the policy check with the path P *)
Attempts(r, P) ==
    \E k \in 1..Len(Archives[r.arch].entries) :
        LET entry == Archives[r.arch].entries[k]
        IN  /\ ~LoopSkips(Archives[r.arch], entry)
            /\ EntryData(entry) # <<>>
            /\ validate_upload(EntryData(entry), entry.name, GroupSettingsOf(r.user)) = "ok"
            /\ _sanitize_archive_path(entry.name) = P

(* C4: of two imports in progress at the same time, with no delete
   meanwhile, at most one writes a path P and at most one creates the row
   for P; the other one, when it ends with its summary without a storage
   fault, has counted its entry for P as a conflict *)
C4_OneWriter ==
    \A i, j \in ImportSlots :
        (i # j /\ j \in imp[i].overlap /\ ~imp[i].disturbed /\ ~imp[j].disturbed)
        => /\ {w.key : w \in imp[i].written} \cap {w.key : w \in imp[j].written} = {}
           /\ imp[i].stored \cap imp[j].stored = {}
           /\ \A P \in imp[i].stored :
                 (imp[j].pc = "done" /\ imp[j].status = 200 /\ ~imp[j].faulted
                  /\ Attempts(imp[j], P))
                 => P \in imp[j].conflicts

(* two overlapping imports have ended: one stored P, the other failed on it *)
C4_Witness ==
    \E i, j \in ImportSlots :
        /\ i # j /\ j \in imp[i].overlap
        /\ ~imp[i].disturbed /\ ~imp[j].disturbed
        /\ imp[i].pc = "done" /\ imp[j].pc = "done"
        /\ imp[i].status = 200 /\ imp[j].status = 200
        /\ \E P \in imp[i].stored : P \in imp[j].conflicts /\ P \notin imp[j].stored

(* C6: an upload that passed the policy check and ended with a failure of
   the disk write or of the row's commit has left neither a file at its
   path nor a row with it *)
C6_NoPartialState ==
    (up.pc = "done" /\ up.status = 500 /\ up.reason \in {"open", "write", "commit"})
    => /\ ~IsFile(fdata, disk_path(up.rel_file_path))
       /\ ~RowWithPath(recs, up.rel_file_path)

(* C7: the step in which the policy check rejects an upload or an entry
   changes no directory, file, row or scheduled task; the upload ends with
   413 for the size and 400 for the extension, having done nothing but the
   check, and the entry is counted as a failure *)
C7_RejectionFrame ==
    [][ /\ ( /\ count'.uploads # count.uploads /\ up'.pc = "done"
             /\ up'.reason \in {"ExceedsSizeLimitError", "ExtensionNotAllowedError"} )
           => /\ UNCHANGED <<dirs, fdata, recs, tasks>>
              /\ up'.log = <<"policy">>
              /\ up'.status = IF up'.reason = "ExceedsSizeLimitError" THEN 413 ELSE 400
        /\ \A i \in ImportSlots :
              (AtEntry(imp[i]) /\ Stepped(imp[i], imp'[i]) /\ ~PolicyAccepts(imp[i]))
              => /\ UNCHANGED <<dirs, fdata, recs, tasks>>
                 /\ CountedAsFailure(imp[i], imp'[i])
      ]_vars

(* an upload refused for its size and an entry refused by the policy *)
C7_Witness ==
    /\ up.pc = "done" /\ up.status = 413 /\ up.log = <<"policy">>
    /\ \E i \in ImportSlots :
          /\ imp[i].user = "alice" /\ imp[i].arch = 2
          /\ imp[i].idx = 3 /\ imp[i].fail_count = 1 /\ imp[i].log = <<"policy">>
    /\ recs = << >> /\ fdata = << >> /\ dirs = {}

(* C9: an import whose container is readable ends only after its last
   entry, whatever failed on the way, and the rows and files of the entries
   it stored are there when it ends *)
C9_EntryIsolation ==
    \A i \in ImportSlots :
        (imp[i].pc = "done" /\ imp[i].idx >= 1 /\ Archives[imp[i].arch].failAt = 0)
        => /\ imp[i].idx = Len(Archives[imp[i].arch].entries) + 1
           /\ ~imp[i].disturbed =>
                 \A P \in imp[i].stored :
                     RowWithPath(recs, P) /\ IsFile(fdata, disk_path(P))

(* C10: an import of a non-empty, readable archive with an accepted name,
   in which entries fail by policy rejection, conflict or a failure of the
   storage only, ends with its summary (200) *)
C10_EndsWithSummary ==
    \A i \in ImportSlots :
        ( /\ imp[i].pc = "done" /\ imp[i].idx >= 1
          /\ Archives[imp[i].arch].failAt = 0
          /\ ~imp[i].sess_bad )
        => imp[i].status = 200

(* a summary after a storage fault and a conflict *)
C10_Witness ==
    \E i \in ImportSlots :
        /\ imp[i].pc = "done" /\ imp[i].status = 200
        /\ imp[i].faulted /\ imp[i].conflicts # {}
        /\ imp[i].fail_count >= 2

(* the entries of an archive that are regular files of non-zero length *)
RegularIndexes(arch) ==
    {k \in 1..Len(Archives[arch].entries) :
        /\ Archives[arch].entries[k].kind = "file"
        /\ Archives[arch].entries[k].data # <<>>}

(* C11: in the summary of an import that met no fault and no delete,
   success is the number of rows the import committed, failed is the number
   of failure lines, success + failed is the number of entries that are
   regular files of non-zero length, and every file the import wrote is the
   file of such an entry: directories, links and empty entries change
   nothing *)
C11_SummaryCounts ==
    \A i \in ImportSlots :
        (imp[i].pc = "done" /\ imp[i].status = 200 /\ ~imp[i].faulted /\ ~imp[i].disturbed)
        => /\ imp[i].ok_count = Cardinality(imp[i].stored)
           /\ imp[i].fail_count = Len(imp[i].summary_lines)
           /\ imp[i].ok_count + imp[i].fail_count = Cardinality(RegularIndexes(imp[i].arch))
           /\ \A w \in imp[i].written :
                 \E k \in RegularIndexes(imp[i].arch) :
                     disk_path(_sanitize_archive_path(Archives[imp[i].arch].entries[k].name))
                        = w.key

(* a step of the batch delete in progress *)
BatchDeleteStep ==
    /\ del.kind = "batch"
    /\ del.pc \in {"query", "file", "prune", "commit"}
    /\ del' # del

(* the record keeps its row, the bytes of its file, its FilePreview rows
   and the files of these *)
Keeps(id) ==
    /\ id \in DOMAIN recs' /\ recs'[id] = recs[id]
    /\ IsFile(fdata, disk_path(recs[id].path))
          => /\ IsFile(fdata', disk_path(recs[id].path))
             /\ fdata'[disk_path(recs[id].path)] = fdata[disk_path(recs[id].path)]
    /\ \A p \in PreviewsOf(previews, id) :
          /\ p \in DOMAIN previews' /\ previews'[p] = previews[p]
          /\ previews[p].storage_path \in DOMAIN pfiles
                => previews[p].storage_path \in DOMAIN pfiles'

(* C12: no step of a batch delete sent by a user who is not an
   administrator changes a record of its id list that another user owns:
   the row, the bytes, the previews stay; and the ids a batch delete
   returns are those of the rows its commit removed *)
C12_DeleteOnlyOwn ==
    [][ BatchDeleteStep =>
          /\ ~IsSuperAdmin(del.user) =>
                \A id \in del.ids \cap DOMAIN recs :
                    recs[id].user_id # del.user => Keeps(id)
          /\ del.pc = "commit" => del'.returned = (DOMAIN recs) \ (DOMAIN recs')
      ]_vars

(* C13: at the step in which a batch delete returns its ids, every File it
   returns is gone with everything of it: the row, the file at its path
   (which may have been missing before), the FilePreview rows with this
   parent, and the preview files rendered from it *)
C13_DeletedIsGone ==
    [][ (BatchDeleteStep /\ del.pc = "commit" /\ del'.status = 200) =>
          \A r \in del.rows :
              /\ r.id \in del'.returned
              /\ r.id \notin DOMAIN recs'
              /\ ~IsFile(fdata', disk_path(r.path))
              /\ PreviewsOf(previews', r.id) = {}
              /\ \A n \in DOMAIN pfiles' : pfiles'[n] # r.id
      ]_vars

(* a turn of the loop of _cleanup_empty_dirs *)
PruneStep == del.pc = "prune" /\ del' # del

(* C14: after a delete has removed a file, each turn of the cleanup looks
   at the next ancestor: an empty directory below the root is removed and
   the walk goes on with its parent; at a directory that is not empty, and
   at the root, the walk ends and removes nothing.  No step of the system
   removes a directory that has an entry *)
C14_PruneEmptyAncestors ==
    [][ /\ \A d \in dirs \ dirs' : d # <<>> /\ Listdir(dirs, fdata, d) = {}
        /\ PruneStep =>
              LET here == disk_path(del.parent)
              IN  IF here # <<>> /\ here \in dirs /\ Listdir(dirs, fdata, here) = {}
                  THEN /\ dirs' = dirs \ {here}
                       /\ del'.pc = "prune"
                       /\ del'.parent = Dirname(del.parent)
                  ELSE /\ dirs' = dirs
                       /\ del'.pc = "file"
      ]_vars

(* the task at the head of runner g ends in this step with the outcome *)
RunEnds(g, outcome) ==
    /\ Len(gen'[g].runs) = Len(gen[g].runs) + 1
    /\ gen'[g].runs[Len(gen'[g].runs)].outcome = outcome

(* C15: a generation that fails (bytes that do not decode, a disk error
   while the thumbnail is saved) changes neither the answer of the upload
   nor the stored file nor any row, and the File row it was run for has
   has_preview false, no default preview path and no FilePreview row *)
C15_FailedPreviewKeepsUpload ==
    [][ \A g \in Runners : RunEnds(g, "failed") =>
           LET id == Head(gen[g].todo)
           IN  /\ up' = up /\ imp' = imp
               /\ recs' = recs /\ previews' = previews
               /\ fdata' = fdata /\ dirs' = dirs
               /\ id \in DOMAIN recs =>
                     /\ ~recs'[id].has_preview
                     /\ recs'[id].default_preview_path = <<>>
                     /\ PreviewsOf(previews', id) = {}
      ]_vars

(* C16: every FilePreview row has its File row, and every thumbnail on
   disk was rendered from a File row that exists *)
C16_PreviewHasParent ==
    /\ \A p \in DOMAIN previews : previews[p].file_id \in DOMAIN recs
    /\ \A n \in DOMAIN pfiles : pfiles[n] \in DOMAIN recs

(* C17: no two FilePreview rows have the same file and the same kind *)
C17_OnePreviewPerKind ==
    \A p, q \in DOMAIN previews :
        (/\ previews[p].file_id = previews[q].file_id
         /\ previews[p].preview_type = previews[q].preview_type) => p = q

(* how many times a task for the File id stands in the queues or in the
   completed runs of the background runners *)
TimesScheduled(gn, id) ==
    Cardinality(UNION {{<<g, "todo", k>> : k \in {j \in 1..Len(gn[g].todo) :
                                                     gn[g].todo[j] = id}}
                       \cup {<<g, "run", k>> : k \in {j \in 1..Len(gn[g].runs) :
                                                     gn[g].runs[j].id = id}}
                        : g \in Runners})

(* all the tasks ever handed to the background runners *)
TotalTasks(gn) ==
    Cardinality(UNION {{<<g, "todo", k>> : k \in 1..Len(gn[g].todo)}
                       \cup {<<g, "run", k>> : k \in 1..Len(gn[g].runs)}
                        : g \in Runners})

(* the File rows to which this step gives a type that has a generator *)
NewlyPreviewable ==
    {id \in DOMAIN recs' :
        /\ recs'[id].file_type \in PREVIEW_GENERATORS
        /\ id \in DOMAIN recs => recs[id].file_type \notin PREVIEW_GENERATORS}

(* C18: after every step, each File row whose stored type has a generator
   has exactly one preview task, queued or run, and each other row has
   none; a step adds one task for each row to which it gives such a type
   and no other task; a task that ends, whatever its outcome, leaves its
   queue and is not queued again; a single upload whose type has no
   generator ends with 200 when its row is there and no fault is injected *)
C18_ScheduledOnce ==
    [][ /\ \A id \in DOMAIN recs' :
              TimesScheduled(gen', id) =
                  IF recs'[id].file_type \in PREVIEW_GENERATORS THEN 1 ELSE 0
        /\ TotalTasks(gen') = TotalTasks(gen) + Cardinality(NewlyPreviewable)
        /\ \A id \in NewlyPreviewable :
              TimesScheduled(gen', id) = TimesScheduled(gen, id) + 1
        /\ \A g \in Runners :
              gen'[g].runs # gen[g].runs =>
                 /\ gen[g].todo # <<>>
                 /\ gen'[g].todo = Tail(gen[g].todo)
                 /\ \E o \in {"no file", "no generator", "nothing", "failed", "stale", "ok"} :
                       gen'[g].runs = Append(gen[g].runs,
                                             [id |-> Head(gen[g].todo), outcome |-> o])
        /\ (/\ up.pc = "classify" /\ up'.pc = "done" /\ count' = count
            /\ up.id \in DOMAIN recs
            /\ guess_file_type_by_extension(up.filename) \notin PREVIEW_GENERATORS)
           => up'.status = 200 /\ gen' = gen
      ]_vars

(* a bulk import's image entry whose generation failed, its task gone from
   the queue, next to a stored file of a type without a generator *)
C18_Witness ==
    /\ \E g \in Runners : /\ g > MaxUploads
                          /\ gen[g].todo = <<>>
                          /\ \E k \in 1..Len(gen[g].runs) : gen[g].runs[k].outcome = "failed"
    /\ \E id \in DOMAIN recs : recs[id].file_type = "base" /\ TimesScheduled(gen, id) = 0
    /\ up.pc = "done" /\ up.status = 200

(* the handler of a single upload is called without a logged-in user *)
AnonymousReceive == count'.uploads = count.uploads + 1 /\ up'.user = Anonymous

(* C19: an upload without a logged-in user goes on to the disk only when
   public uploads are enabled, with the guest as the owner and after the
   guest's group settings accept the file; otherwise it ends at once with
   403, 400 or 413 and the directories, the files and the File rows are
   as before.  The row such an upload commits belongs to the guest *)
C19_AnonymousUpload ==
    [][ /\ AnonymousReceive =>
              /\ dirs' = dirs /\ fdata' = fdata /\ recs' = recs
              /\ ~settings.public_upload_enabled => up'.pc = "done" /\ up'.status = 403
              /\ \/ /\ up'.pc = "done"
                    /\ up'.status \in {403, 400, 413}
                 \/ /\ up'.pc = "mkdir"
                    /\ settings.public_upload_enabled
                    /\ up'.owner = GuestUser
                    /\ validate_upload(up'.contents, up'.filename,
                                       GroupSettingsOf(GuestUser)) = "ok"
        /\ (up.user = Anonymous /\ up.pc = "commit" /\ up'.pc = "classify") =>
              /\ DOMAIN recs' = DOMAIN recs \cup {up'.id}
              /\ up'.id \notin DOMAIN recs
              /\ recs'[up'.id].user_id = GuestUser
      ]_vars

(* an anonymous upload stored for the guest after public uploads were
   switched on *)
C19_Witness ==
    /\ up.user = Anonymous /\ up.pc = "done" /\ up.status = 200
    /\ settings.public_upload_enabled
    /\ \E id \in DOMAIN recs : recs[id].user_id = GuestUser

(* no upload, import or delete request is being handled *)
NothingInProgress ==
    /\ up.pc \in {"idle", "done"}
    /\ \A i \in ImportSlots : ~InFlight(imp[i])
    /\ del.pc \in {"idle", "done"}

(* C20: when no upload, import or delete is being handled, every File
   row has a regular file at its path whose length is the row's size *)
C20_RecordHasItsBytes ==
    NothingInProgress =>
        \A id \in DOMAIN recs :
            /\ IsFile(fdata, disk_path(recs[id].path))
            /\ Len(fdata[disk_path(recs[id].path)]) = recs[id].size

(* C21: no step changes the path, the size or the original name of a File
   row that is there before and after it; the type, the preview fields and
   the owner are the only fields a step changes *)
C21_PathAndSizeFixed ==
    [][ \A id \in DOMAIN recs \cap DOMAIN recs' :
           /\ recs'[id].path = recs[id].path
           /\ recs'[id].size = recs[id].size
           /\ recs'[id].original_filename = recs[id].original_filename
      ]_vars

(* bob was deleted with his file handed to the guest, the preview of
   alice's file was generated and a later upload was stored *)
C21_Witness ==
    /\ del.kind = "user" /\ del.pc = "done" /\ del.status = 200 /\ ~del.delete_files
    /\ 1 \in DOMAIN recs /\ recs[1].user_id = GuestUser /\ recs[1].path = D_A_PNG
    /\ 2 \in DOMAIN recs /\ recs[2].has_preview /\ recs[2].path = E_A_PNG
    /\ up.pc = "done" /\ up.status = 200

(* the name ends in .zip, .tar, .tar.gz or .tgz, in any case of letters *)
KnownArchiveExtension(filename) ==
    \E e \in {ZIP, TAR, TARGZ, TGZ} : EndsWith(Lower(filename), e)

(* the store: directories, files and File rows *)
StoreUnchanged == dirs' = dirs /\ fdata' = fdata /\ recs' = recs

(* C22: a single upload refused for its empty content, a bulk import
   refused for its archive name (missing, or of an unknown extension) and
   a bulk import refused for its empty content end with 400 in a step
   that leaves the directories, the files and the File rows as they were;
   an archive whose name is refused is answered in the step that calls the
   handler, before archive.read() *)
C22_ValidationErrorNoEffect ==
    [][ /\ (up.pc \in {"idle", "done"} /\ count'.uploads = count.uploads + 1
            /\ up'.pc = "done" /\ up'.reason = "empty")
           => up'.status = 400 /\ StoreUnchanged
        /\ \A i \in ImportSlots :
              /\ (imp[i].pc = "idle" /\ imp'[i].pc # "idle") =>
                    IF KnownArchiveExtension(Archives[imp'[i].arch].filename)
                    THEN imp'[i].pc = "read" /\ StoreUnchanged
                    ELSE imp'[i].pc = "done" /\ imp'[i].status = 400 /\ StoreUnchanged
              /\ (imp[i].pc = "read" /\ imp'[i].pc # "read") =>
                    IF Archives[imp[i].arch].empty
                    THEN imp'[i].pc = "done" /\ imp'[i].status = 400 /\ StoreUnchanged
                    ELSE imp'[i].pc = "entry" /\ StoreUnchanged
      ]_vars

(* with files stored, an upload without content, an archive without a
   name, an archive of an unknown extension or an archive without content
   has been refused *)
C22_Witness ==
    /\ recs # << >>
    /\ \/ up.pc = "done" /\ up.status = 400 /\ up.reason = "empty"
       \/ \E i \in ImportSlots :
             /\ imp[i].pc = "done" /\ imp[i].status = 400
             /\ \/ Archives[imp[i].arch].empty
                \/ ~KnownArchiveExtension(Archives[imp[i].arch].filename)

(* The stated result, computed one character at a time: the segments are
   the runs of characters between separators of either kind, the runs
   ".", ".." and the empty run are dropped *)
RECURSIVE ReferenceSegments(_, _, _)
ReferenceSegments(s, k, cur) ==
    LET done == IF cur \in {<<>>, <<".">>, <<".", ".">>} THEN <<>> ELSE <<cur>>
    IN  IF k > Len(s) THEN done
        ELSE IF s[k] \in {"/", "\\"} THEN done \o ReferenceSegments(s, k + 1, <<>>)
        ELSE ReferenceSegments(s, k + 1, Append(cur, s[k]))

RECURSIVE ReferenceJoin(_)
ReferenceJoin(parts) ==
    IF parts = <<>> THEN <<>>
    ELSE IF Len(parts) = 1 THEN parts[1]
    ELSE parts[1] \o <<"/">> \o ReferenceJoin(Tail(parts))

(* the segments of a path; the empty path has none *)
SegmentsOf(p) == IF p = <<>> THEN <<>> ELSE Split(p, "/")

(* C23: the result of _sanitize_archive_path has no segment "." or "..",
   no empty segment, no leading "/" and no backslash, and it is the input
   with its "." / ".." / empty segments dropped, either separator taken
   as "/", the other segments in their order *)
C23_SanitizeResult ==
    (pure.fn = "_sanitize_archive_path" /\ pure.returned) =>
        /\ \A k \in 1..Len(SegmentsOf(pure.result)) :
              SegmentsOf(pure.result)[k] \notin {<<>>, <<".">>, <<".", ".">>}
        /\ ~StartsWith(pure.result, <<"/">>)
        /\ \A k \in 1..Len(pure.result) : pure.result[k] # "\\"
        /\ pure.result = ReferenceJoin(ReferenceSegments(pure.path_in_archive, 1, <<>>))

(* the call on "..\a" has returned "a" *)
C23_Witness ==
    /\ pure.fn = "_sanitize_archive_path" /\ pure.returned
    /\ pure.path_in_archive = <<".", ".", "\\", "a">>
    /\ pure.result = <<"a">>

(* the value the token stands for, in four digits for the year and in two
   for the others *)
TokenValue(tok, now) ==
    CASE tok = "Y" -> ZeroPad(now.Y, 4)
      [] tok = "m" -> ZeroPad(now.m, 2)
      [] tok = "d" -> ZeroPad(now.d, 2)
      [] tok = "H" -> ZeroPad(now.H, 2)
      [] tok = "M" -> ZeroPad(now.M, 2)
      [] tok = "S" -> ZeroPad(now.S, 2)

(* every token replaced by its value, every other piece as it is *)
RECURSIVE Expanded(_, _)
Expanded(pieces, now) ==
    IF pieces = <<>> THEN <<>>
    ELSE (IF Head(pieces) \in Tokens THEN TokenValue(Head(pieces), now)
          ELSE <<Head(pieces)>>)
         \o Expanded(Tail(pieces), now)

(* C24: every call of render_path_template with the same template and the
   same timestamp returns the same string; the string is the template
   with each token replaced by its zero-padded value (four digits for the
   year, two for month, day, hour, minute and second) and every other
   character kept, without the separators at its two ends; it neither
   starts nor ends with "/" or "\" *)
C24_RenderResult ==
    pure.fn = "render_path_template" =>
        \A k \in 1..Len(pure.results) :
            /\ pure.results[k] = pure.results[1]
            /\ pure.results[k] = Strip(Expanded(pure.pieces, pure.now), {"/", "\\"})
            /\ pure.results[k] # <<>> =>
                  /\ pure.results[k][1] \notin {"/", "\\"}
                  /\ pure.results[k][Len(pure.results[k])] \notin {"/", "\\"}

(* C25: while a single upload or an import entry stands between its
   makedirs and its open(..., "wb"), the directory it is about to write
   into is there: no delete prunes it in between, so the write is not made
   to fail *)
C25_PruneSparesPendingWrite ==
    /\ up.pc = "write" => ~OpenFails(dirs, disk_path(up.rel_file_path))
    /\ \A i \in ImportSlots :
          imp[i].pc = "write" => ~OpenFails(dirs, disk_path(imp[i].safe_path))

(* C26: two FilePreview rows of different File rows never have the same
   storage path *)
C26_PreviewPathsDistinct ==
    \A p, q \in DOMAIN previews :
        previews[p].file_id # previews[q].file_id
            => previews[p].storage_path # previews[q].storage_path

(* the container raises while connection i passes over its entries, and
   the import, none of whose writes or commits met a fault, is answered
   with 400 *)
ArchiveErrorStep(i) ==
    /\ imp[i].pc = "entry" /\ imp'[i].pc = "done" /\ imp'[i].status = 400
    /\ ~imp[i].faulted
    /\ Archives[imp[i].arch].failAt = imp'[i].idx

(* C27: when a bulk import is answered with an archive-level error, no
   file this import wrote is on disk and no File row it committed is in
   the table *)
C27_ArchiveErrorLeavesNothing ==
    [][ \A i \in ImportSlots : ArchiveErrorStep(i) =>
           /\ \A w \in imp[i].written : ~IsFile(fdata', w.key)
           /\ \A p \in imp[i].stored :
                 \A id \in DOMAIN recs' : recs'[id].path # p
      ]_vars

(***************************************************************************)
(* C28: when the importing user's group has a non-empty allowed_extensions *)
(* list, the path stored for an imported entry has a last segment that     *)
(* ends in "." followed by an extension matching the list                  *)
(* case-insensitively, although the check read the raw entry name.         *)
(***************************************************************************)
StoredUnderAllowedExtension(path, exts) ==
    \E i \in 1..Len(exts) :
        EndsWith(Lower(Basename(path)), <<".">> \o Lower(exts[i]))

PlainExtension(ext) == ext # <<>> /\ \A k \in 1..Len(ext) : ext[k] \notin {"/", "\\"}

(* as stated, for every allow-list the group may hold *)
C28_ImportedExtensionAllowed ==
    (pure.fn = "_import_file" /\ pure.returned /\ pure.result.outcome = "stored")
        => StoredUnderAllowedExtension(pure.result.path,
                                       pure.group_settings.allowed_extensions)

(* C28, amended: ... when every entry of the allow-list is a non-empty     *)
(* string without "/" or "\", the stored path's last segment ends in "."   *)
(* followed by an extension matching the list case-insensitively.          *)
C28_ImportedExtensionAllowedPlainList ==
    (pure.fn = "_import_file" /\ pure.returned /\ pure.result.outcome = "stored"
        /\ \A i \in 1..Len(pure.group_settings.allowed_extensions) :
               PlainExtension(pure.group_settings.allowed_extensions[i]))
        => StoredUnderAllowedExtension(pure.result.path,
                                       pure.group_settings.allowed_extensions)

C28_Witness ==
    /\ pure.fn = "_import_file"
    /\ pure.returned
    /\ pure.member_name = <<"a", "\\", ".", "P">>
    /\ pure.group_settings.allowed_extensions = << <<"p">> >>
    /\ pure.result = [outcome |-> "stored", path |-> <<"a", "/", ".", "P">>]

(***************************************************************************)
(* C29: a successful single upload into the empty store followed by the    *)
(* delete of the row it created, the preview task of the upload either     *)
(* finished or not begun and nothing else having been asked, leaves the    *)
(* store as it was: no directory and no file under the storage root, no    *)
(* file under the preview root, no File row and no FilePreview row.        *)
(***************************************************************************)
UploadedThenDeleted ==
    /\ up.pc = "done" /\ up.status = 200
    /\ del.pc = "done" /\ del.status = 200 /\ del.returned = {1}
    /\ count.uploads = 1 /\ count.deletes = 1 /\ count.faults = 0
    /\ gen[1].pc = "load"
    /\ gen[1].runs = <<>> \/ gen[1].todo = <<>>

EmptyStore ==
    /\ dirs = {}
    /\ fdata = << >>
    /\ recs = << >>
    /\ previews = << >>
    /\ pfiles = << >>

C29_UploadDeleteRestores == UploadedThenDeleted => EmptyStore

(* the round trip under the default template *)
RoundTripUnderDefaultTemplate ==
    (UploadedThenDeleted /\ settings.upload_path_template = DefaultTemplate) => EmptyStore

(* ... with the preview rendered before the delete *)
RoundTripAfterPreview ==
    /\ UploadedThenDeleted
    /\ settings.upload_path_template = DefaultTemplate
    /\ gen[1].runs = << [id |-> 1, outcome |-> "ok"] >>

(***************************************************************************)
(* C30: in every reachable state a File row has has_preview = TRUE only if *)
(* its file type has a registered preview generator and a FilePreview row  *)
(* with that File as parent exists whose storage_path is the row's         *)
(* default_preview_path; and has_preview never goes from TRUE back to      *)
(* FALSE while the row exists.                                             *)
(***************************************************************************)
HasPreviewBacked ==
    \A id \in DOMAIN recs :
        recs[id].has_preview =>
            /\ recs[id].file_type \in PREVIEW_GENERATORS
            /\ \E p \in DOMAIN previews :
                   /\ previews[p].file_id = id
                   /\ previews[p].storage_path = recs[id].default_preview_path

HasPreviewKept ==
    \A id \in (DOMAIN recs) \cap (DOMAIN recs') :
        recs[id].has_preview => recs'[id].has_preview

C30_HasPreviewSound == []HasPreviewBacked /\ [][HasPreviewKept]_vars

====
